---- MODULE Spec2Model ----
(***************************************************************************)
(* A model of the executable glue code of the c3d-book notebooks:          *)
(*   - the spectral peak-fitting pipeline of spectrum_analysis.ipynb and   *)
(*     its code snippet run_curve_fits (specification Spec),               *)
(*   - get_smiles_from_name of ML_demo.ipynb (specification SpecLookup),   *)
(*   - the two versions of getMolDescriptors of ML_demo.ipynb              *)
(*     (specification SpecDesc),                                           *)
(*   - the peak-shape functions and the gen_peaks snippet (SpecShape),     *)
(*   - the manual r^2 cell of spectrum_analysis.ipynb (SpecR2),            *)
(*   - the peak locator find_peaks, without and with thresholds            *)
(*     (SpecLocate), and the conversion of its results to ppm              *)
(*     (SpecConvert),                                                      *)
(*   - the split / fit / score / scale cells of ML_demo.ipynb (SpecML),    *)
(*   - the data-frame cells of ML_demo.ipynb: filter, molecules,           *)
(*     descriptors, concatenation and the two splits (SpecFrame), and the  *)
(*     two splits on frames of more rows (SpecSplit).                      *)
(* Python indices are kept 0-based as in the source; a TLA+ sequence s is  *)
(* read at Python index i as s[i + 1].                                     *)
(***************************************************************************)
EXTENDS Integers, Sequences, FiniteSets, TLC

\* ------------------------------------------------------------------ bounds
SpecLen == 5
MaxLookups == 2
DescCount == 3
MaxListLen == 2
MaxIntensity == 2
MaxWidth == 2
NSamples == 3
MaxX == 3
MaxR2Len == 3
MaxRows == 6
MaxBp == 1
LocLen == 7
MaxPpm == 4
FrameRows == 4

VARIABLES
    \* --- spectrum_analysis.ipynb
    nmr_spec,       \* the loaded spectrum: [ppm, intensity], two equal-length sequences
    peak_idx,       \* find_peaks: indices (0-based) of the located peaks, ascending
    peak_info,      \* find_peaks properties plus "centres"; widths already in ppm
    solver,         \* scipy's deterministic least-squares solver: p0 -> outcome
    popt_list,
    pcov_list,
    pk,             \* loop variable of the fit loop
    calls,          \* the curve_fit invocations made so far, in order
    errors,         \* the reporter's list of 1-sigma error vectors
    fitted_peaks,   \* list of {ampl, centre, width} dictionaries
    lor_spec,       \* the calculated spectrum [x, y] returned by simulate_spectrum
    stdout,         \* what the cells have printed / displayed
    pc,             \* which cell of the notebook has run last
    \* --- ML_demo.ipynb: get_smiles_from_name
    lk_log,         \* events of the lookups so far: get, sleep, print, return
    lk_clock,       \* wall-clock time in milliseconds
    lk_pc,          \* "idle" between calls, "requested" and "slept" inside a call,
                    \* "raised" once requests.get threw
    \* --- ML_demo.ipynb: getMolDescriptors
    d_args,         \* arguments of the call: version, mol, descriptor_list, missingVal
    descriptors,    \* the local list of (name, function) pairs being looped over
    d_i,            \* position of the loop in descriptors
    res,            \* the dictionary being built, in insertion order
    d_failed,       \* names whose descriptor function raised (tracebacks printed)
    d_pc,           \* "idle", "loop", "returned" or "raised"
    \* --- gen_peaks snippet: the peak-shape functions on a sampled axis
    gp_x,           \* the sample positions x
    gp_args,        \* [ampl, centre, width] passed to both shape functions
    y_lor,          \* lorentzian(x, ampl, centre, width), one value per sample
    y_gauss,        \* gaussian(x, ampl, centre, width), one value per sample
    gp_pc,          \* which of the two curves have been generated
    \* --- spectrum_analysis.ipynb: the manual r^2 cell
    r2_args,        \* [calc, obs]: lor_spec_y and nmr_spec["intensity"]
    SSR,
    SST,            \* kept as the exact fraction [num, den]
    r2,
    r2_pc,
    \* --- spectrum_analysis.ipynb: find_peaks on its own
    fp_y,           \* the intensity sequence searched
    fp_all,         \* indices returned by find_peaks(intensity)
    fp_thr,         \* [height, prominence] of the filtered call
    fp_sel,         \* indices returned by the filtered call
    fp_pc,
    \* --- spectrum_analysis.ipynb: centres and widths in ppm
    cv_ppm,         \* the x axis nmr_spec["ppm"]
    cv_idx,         \* peak_idx
    cv_widths,      \* peak_info["widths"], in samples
    centres,        \* peak_info["centres"]
    widths_ppm,     \* the widths in ppm, exact fractions [num, den]
    cv_pc,
    \* --- ML_demo.ipynb: split, regression, scaling
    X_train,
    X_test,
    y_train,
    y_test,
    reg,            \* the fitted LinearRegression: predict(x) = (num0 + num1*x)/den
    ml_r2,          \* the notebook's r2 = reg.score(...)
    scaler,         \* the fitted MinMaxScaler
    scaled_X_train,
    scaled_X_test,
    ml_pc,
    \* --- ML_demo.ipynb: the data frame from the CSV file to the two splits
    csv,            \* rows of data/alcohol_acid_phys_data_cleaned.csv
    shuffle,        \* the permutation RandomState(42) draws for the rows to split
    bp_df,
    descriptor_df,
    X_full,
    y_full,
    split1,         \* [X_train, X_test, y_train, y_test] of the first call
    split2,         \* the same of the call in the scaling cell
    fr_pc

fitVars == <<nmr_spec, peak_idx, peak_info, solver, popt_list, pcov_list, pk,
             calls, errors, fitted_peaks, lor_spec, stdout, pc>>

lookupVars == <<lk_log, lk_clock, lk_pc>>

descVars == <<d_args, descriptors, d_i, res, d_failed, d_pc>>

shapeVars == <<gp_x, gp_args, y_lor, y_gauss, gp_pc>>

r2Vars == <<r2_args, SSR, SST, r2, r2_pc>>

locVars == <<fp_y, fp_all, fp_thr, fp_sel, fp_pc>>

convVars == <<cv_ppm, cv_idx, cv_widths, centres, widths_ppm, cv_pc>>

mlVars == <<X_train, X_test, y_train, y_test, reg, ml_r2, scaler,
            scaled_X_train, scaled_X_test, ml_pc>>

frameVars == <<csv, shuffle, bp_df, descriptor_df, X_full, y_full, split1,
               split2, fr_pc>>

\* The state of the function-level specifications and of the data-frame cells
pureVars == <<shapeVars, r2Vars, locVars, convVars, mlVars, frameVars>>

vars == <<fitVars, lookupVars, descVars, pureVars>>

\* ------------------------------------------------------- helper operators
Range(s) == {s[i] : i \in 1..Len(s)}

\* Python: s[i] for a 0-based index i
At(s, i) == s[i + 1]

\* Ascending sequence of the elements of a finite set of integers
RECURSIVE SortedSeq(_)
SortedSeq(S) ==
    IF S = {} THEN <<>>
    ELSE LET m == CHOOSE x \in S : \A y \in S : x <= y
         IN  <<m>> \o SortedSeq(S \ {m})

\* A float of the covariance matrix: finite (val) or numpy's inf
Fl(v) == [inf |-> FALSE, val |-> v]
INF == [inf |-> TRUE, val |-> 0]

\* numpy: np.sqrt of one float (variances are drawn as perfect squares)
Sqrt(x) ==
    IF x.inf THEN INF
    ELSE Fl(CHOOSE r \in 0..x.val : r * r <= x.val /\ (r + 1) * (r + 1) > x.val)

\* numpy: np.diag of a square matrix given as a sequence of rows
Diag(m) == [i \in 1..Len(m) |-> m[i][i]]

IsFinite(m) == \A i \in 1..Len(m) : \A j \in 1..Len(m[i]) : ~m[i][j].inf

\* ------------------------------------------------------- peak-shape model
\* Exact values of the Lorentzian are rational multiples of 1/pi: the record
\* [num, den] stands for the real number num / (den * pi).
RatAdd(a, b) ==
    [pi_units |-> TRUE, num |-> a.num * b.den + b.num * a.den, den |-> a.den * b.den]

\* Mutant of lorentzian: the full width is used where the half width belongs
lorentzianFullWidth(x, ampl, centre, width) ==
    [pi_units |-> TRUE,
     num |-> ampl * width,
     den |-> (x - centre) * (x - centre) + width * width]

\* Mutant of lorentzian: the squared half width is subtracted in the denominator
lorentzianMinus(x, ampl, centre, width) ==
    [pi_units |-> TRUE,
     num |-> 2 * ampl * width,
     den |-> 4 * (x - centre) * (x - centre) - width * width]

\* lorentzian(x_array, ampl, centre, width) at one sample x:
\*   h_width = width/2 ; ampl/np.pi * h_width/((x-centre)**2 + h_width**2)
\* which is 2*ampl*width / (pi * (4*(x-centre)**2 + width**2)).
lorentzian(x, ampl, centre, width) ==
    [pi_units |-> TRUE,
     num |-> 2 * ampl * width,
     den |-> 4 * (x - centre) * (x - centre) + width * width]

\* ------------------------------------------------------------ the spectrum
\* x axis: chemical shift, strictly descending as in the 13C data
PpmAxis == [i \in 1..SpecLen |-> SpecLen + 1 - i]

Spectra ==
    {[ppm |-> PpmAxis, intensity |-> y] : y \in [1..SpecLen -> 0..MaxIntensity]}

\* Mutant of LocalMaxima: the sample next to the first one is skipped as well
LocalMaximaFromSecond(x) ==
    {(l + r) \div 2 : <<l, r>> \in
        {lr \in (2..(Len(x) - 2)) \X (2..(Len(x) - 2)) :
            /\ lr[1] <= lr[2]
            /\ \A j \in lr[1]..lr[2] : At(x, j) = At(x, lr[1])
            /\ At(x, lr[1] - 1) < At(x, lr[1])
            /\ At(x, lr[2] + 1) < At(x, lr[2])}}

\* scipy.signal.find_peaks without thresholds: every local maximum, a flat
\* maximum being reported at the (floored) middle of its plateau; the first and
\* the last sample are never peaks.  Indices are 0-based.
LocalMaxima(x) ==
    {(l + r) \div 2 : <<l, r>> \in
        {lr \in (1..(Len(x) - 2)) \X (1..(Len(x) - 2)) :
            /\ lr[1] <= lr[2]
            /\ \A j \in lr[1]..lr[2] : At(x, j) = At(x, lr[1])
            /\ At(x, lr[1] - 1) < At(x, lr[1])
            /\ At(x, lr[2] + 1) < At(x, lr[2])}}

\* scipy.signal.peak_prominences for the peak at index i
Prominence(x, i) ==
    LET MinOver(S) == CHOOSE v \in {At(x, j) : j \in S} :
                          \A j \in S : v <= At(x, j)
        higherL == {j \in 0..(i - 1) : At(x, j) > At(x, i)}
        higherR == {j \in (i + 1)..(Len(x) - 1) : At(x, j) > At(x, i)}
        lb == IF higherL = {} THEN 0
              ELSE CHOOSE j \in higherL : \A k \in higherL : k <= j
        rb == IF higherR = {} THEN Len(x) - 1
              ELSE CHOOSE j \in higherR : \A k \in higherR : j <= k
        lmin == MinOver(lb..i)
        rmin == MinOver(i..rb)
    IN  At(x, i) - (IF lmin > rmin THEN lmin ELSE rmin)

\* The peak information held when the fit section starts: the properties
\* returned by find_peaks for the located peaks, the centres in ppm and the
\* widths converted to ppm.
PeakInfo(spec, idx, w) ==
    [peak_heights |-> [k \in 1..Len(idx) |-> At(spec.intensity, idx[k])],
     prominences  |-> [k \in 1..Len(idx) |-> Prominence(spec.intensity, idx[k])],
     widths       |-> w,
     centres      |-> [k \in 1..Len(idx) |-> At(spec.ppm, idx[k])]]

\* ------------------------------------------------------------- curve_fit
\* Mutant of P0: the amplitude guess is the bare peak height
P0HeightOnly(info, k) ==
    <<At(info["peak_heights"], k),
      At(info["centres"], k),
      At(info["widths"], k)>>

\* Initial guess of the fit of peak pk (0-based): rectangle area, centre, width
P0(info, k) ==
    <<At(info["peak_heights"], k) * At(info["widths"], k),
      At(info["centres"], k),
      At(info["widths"], k)>>

CovFinite ==
    <<<<Fl(4), Fl(1), Fl(0)>>, <<Fl(1), Fl(1), Fl(0)>>, <<Fl(0), Fl(0), Fl(9)>>>>

CovInf ==
    <<<<INF, INF, INF>>, <<INF, INF, INF>>, <<INF, INF, INF>>>>

\* What scipy.optimize.curve_fit can do when started from p0:
\*   "ok"    optimal parameters found, finite covariance;
\*   "warn"  parameters returned, but the covariance could not be estimated:
\*           pcov is filled with inf and only an OptimizeWarning is issued;
\*   "raise" RuntimeError: optimal parameters not found.
FitOutcomes(p0) ==
    {[kind |-> "ok", popt |-> p0, pcov |-> CovFinite],
     [kind |-> "ok", popt |-> <<p0[1] + 1, p0[2], p0[3]>>, pcov |-> CovFinite],
     [kind |-> "warn", popt |-> p0, pcov |-> CovInf],
     [kind |-> "raise", popt |-> <<>>, pcov |-> <<>>]}

\* The solvers possible for a set of initial guesses
Solvers(D) ==
    {f \in [D -> UNION {FitOutcomes(p) : p \in D}] : \A p \in D : f[p] \in FitOutcomes(p)}

\* curve_fit(f, xdata, ydata, p0): least squares is deterministic, so for the
\* loaded spectrum its result is a function of the initial guess alone.
CurveFit(f, xdata, ydata, p0) == solver[p0]

\* ------------------------------------------ spectrum_analysis.ipynb: cells
\* The other notebooks' state while the peak-fitting notebook runs
IdleLookup ==
    /\ lk_log = <<>>
    /\ lk_clock = 0
    /\ lk_pc = "off"

IdleDesc ==
    /\ d_args = [version |-> "none"]
    /\ descriptors = <<>>
    /\ d_i = 0
    /\ res = <<>>
    /\ d_failed = {}
    /\ d_pc = "off"

IdleShape ==
    /\ gp_x = <<>>
    /\ gp_args = <<>>
    /\ y_lor = <<>>
    /\ y_gauss = <<>>
    /\ gp_pc = "off"

IdleR2 ==
    /\ r2_args = <<>>
    /\ SSR = 0
    /\ SST = <<>>
    /\ r2 = <<>>
    /\ r2_pc = "off"

IdleLocate ==
    /\ fp_y = <<>>
    /\ fp_all = {}
    /\ fp_thr = <<>>
    /\ fp_sel = {}
    /\ fp_pc = "off"

IdleConvert ==
    /\ cv_ppm = <<>>
    /\ cv_idx = <<>>
    /\ cv_widths = <<>>
    /\ centres = <<>>
    /\ widths_ppm = <<>>
    /\ cv_pc = "off"

IdleML ==
    /\ X_train = <<>>
    /\ X_test = <<>>
    /\ y_train = <<>>
    /\ y_test = <<>>
    /\ reg = <<>>
    /\ ml_r2 = <<>>
    /\ scaler = <<>>
    /\ scaled_X_train = <<>>
    /\ scaled_X_test = <<>>
    /\ ml_pc = "off"

IdleFrame ==
    /\ csv = <<>>
    /\ shuffle = <<>>
    /\ bp_df = <<>>
    /\ descriptor_df = <<>>
    /\ X_full = <<>>
    /\ y_full = <<>>
    /\ split1 = <<>>
    /\ split2 = <<>>
    /\ fr_pc = "off"

\* The function-level specifications while one of the notebooks runs
IdlePure == IdleShape /\ IdleR2 /\ IdleLocate /\ IdleConvert /\ IdleML /\ IdleFrame

IdleFit ==
    /\ nmr_spec = [ppm |-> <<>>, intensity |-> <<>>]
    /\ peak_idx = <<>>
    /\ peak_info = <<>>
    /\ solver = <<>>
    /\ popt_list = <<>>
    /\ pcov_list = <<>>
    /\ pk = 0
    /\ calls = <<>>
    /\ errors = <<>>
    /\ fitted_peaks = <<>>
    /\ lor_spec = [x |-> <<>>, y |-> <<>>]
    /\ stdout = <<>>
    /\ pc = "off"

\* The three notebooks' cells while a function-level specification runs
IdleCells == IdleFit /\ IdleLookup /\ IdleDesc

\* The spectrum has been loaded; nothing has been located or fitted yet
InitFit ==
    /\ nmr_spec \in Spectra
    /\ peak_idx = <<>>
    /\ peak_info = <<>>
    /\ solver = <<>>
    /\ popt_list = <<>>
    /\ pcov_list = <<>>
    /\ pk = 0
    /\ calls = <<>>
    /\ errors = <<>>
    /\ fitted_peaks = <<>>
    /\ lor_spec = [x |-> <<>>, y |-> <<>>]
    /\ stdout = <<>>
    /\ pc = "loaded"

\* Peak location and unit conversion: find_peaks with thresholds keeps a
\* subset of the local maxima, in ascending order of index, and returns their
\* properties; the centres and the widths in ppm are added to peak_info.
\* From here on the initial guesses are known, and with them what the
\* (deterministic) solver will do for each of them.
Locate ==
    /\ pc = "loaded"
    /\ \E S \in SUBSET LocalMaxima(nmr_spec["intensity"]) :
           LET idx == SortedSeq(S)
           IN  \E w \in [1..Len(idx) -> 1..MaxWidth] :
                   LET info == PeakInfo(nmr_spec, idx, w)
                   IN  /\ peak_idx' = idx
                       /\ peak_info' = info
                       /\ solver' \in Solvers({P0(info, k) : k \in 0..(Len(idx) - 1)})
    /\ pc' = "located"
    /\ UNCHANGED <<lookupVars, descVars, pureVars>>
    /\ UNCHANGED <<nmr_spec, popt_list, pcov_list, pk, calls, errors,
                   fitted_peaks, lor_spec, stdout>>

\* "Tidy up the peak information": keep three keys of the dictionary
TidyKeys == {"peak_heights", "widths", "centres"}

Tidy ==
    /\ pc = "located"
    /\ peak_info' = [key \in DOMAIN peak_info \cap TidyKeys |-> peak_info[key]]
    /\ pc' = "tidied"
    /\ UNCHANGED <<lookupVars, descVars, pureVars>>
    /\ UNCHANGED <<nmr_spec, peak_idx, solver, popt_list, pcov_list, pk, calls,
                   errors, fitted_peaks, lor_spec, stdout>>

\* run_curve_fits: popt_list = [] ; pcov_list = []
StartFits ==
    /\ pc = "tidied"
    /\ popt_list' = <<>>
    /\ pcov_list' = <<>>
    /\ pk' = 0
    /\ pc' = "fitting"
    /\ UNCHANGED <<lookupVars, descVars, pureVars>>
    /\ UNCHANGED <<nmr_spec, peak_idx, peak_info, solver, calls, errors,
                   fitted_peaks, lor_spec, stdout>>

\* Mutant of FitStep: results are inserted at the front of the lists
FitStepPrepend ==
    /\ pc = "fitting"
    /\ pk < Len(peak_idx)
    /\ LET xdata == nmr_spec["ppm"]
           ydata == nmr_spec["intensity"]
           p0    == P0(peak_info, pk)
           r     == CurveFit("lorentzian", xdata, ydata, p0)
       IN  /\ calls' = Append(calls, [f |-> "lorentzian", xdata |-> xdata,
                                      ydata |-> ydata, p0 |-> p0, pk |-> pk])
           /\ IF r.kind = "raise"
              THEN /\ pc' = "raised"
                   /\ stdout' = Append(stdout, [kind |-> "RuntimeError", n |-> pk])
                   /\ UNCHANGED <<popt_list, pcov_list, pk>>
              ELSE /\ popt_list' = <<r.popt>> \o popt_list
                   /\ pcov_list' = <<r.pcov>> \o pcov_list
                   /\ pk' = pk + 1
                   /\ stdout' = IF r.kind = "warn"
                                THEN Append(stdout, [kind |-> "OptimizeWarning", n |-> pk])
                                ELSE stdout
                   /\ pc' = pc
    /\ UNCHANGED <<lookupVars, descVars, pureVars>>
    /\ UNCHANGED <<nmr_spec, peak_idx, peak_info, solver, errors, fitted_peaks,
                   lor_spec>>

\* Mutant of FitStep: the exception is caught and the initial guess is stored
\* as a default result, the loop going on with the next peak
FitStepCatch ==
    /\ pc = "fitting"
    /\ pk < Len(peak_idx)
    /\ LET xdata == nmr_spec["ppm"]
           ydata == nmr_spec["intensity"]
           p0    == P0(peak_info, pk)
           r     == CurveFit("lorentzian", xdata, ydata, p0)
       IN  /\ calls' = Append(calls, [f |-> "lorentzian", xdata |-> xdata,
                                      ydata |-> ydata, p0 |-> p0, pk |-> pk])
           /\ popt_list' = Append(popt_list, IF r.kind = "raise" THEN p0 ELSE r.popt)
           /\ pcov_list' = Append(pcov_list, IF r.kind = "raise" THEN CovInf ELSE r.pcov)
           /\ pk' = pk + 1
           /\ stdout' = IF r.kind = "warn"
                        THEN Append(stdout, [kind |-> "OptimizeWarning", n |-> pk])
                        ELSE stdout
           /\ pc' = pc
    /\ UNCHANGED <<lookupVars, descVars, pureVars>>
    /\ UNCHANGED <<nmr_spec, peak_idx, peak_info, solver, errors, fitted_peaks,
                   lor_spec>>

\* run_curve_fits: one iteration of "for pk in range(len(peak_idx))".  There is
\* no try/except around curve_fit: an exception leaves the loop and the cell.
FitStep ==
    /\ pc = "fitting"
    /\ pk < Len(peak_idx)
    /\ LET xdata == nmr_spec["ppm"]
           ydata == nmr_spec["intensity"]
           p0    == P0(peak_info, pk)
           r     == CurveFit("lorentzian", xdata, ydata, p0)
       IN  /\ calls' = Append(calls, [f |-> "lorentzian", xdata |-> xdata,
                                      ydata |-> ydata, p0 |-> p0, pk |-> pk])
           /\ IF r.kind = "raise"
              THEN /\ pc' = "raised"
                   /\ stdout' = Append(stdout, [kind |-> "RuntimeError", n |-> pk])
                   /\ UNCHANGED <<popt_list, pcov_list, pk>>
              ELSE /\ popt_list' = Append(popt_list, r.popt)
                   /\ pcov_list' = Append(pcov_list, r.pcov)
                   /\ pk' = pk + 1
                   /\ stdout' = IF r.kind = "warn"
                                THEN Append(stdout, [kind |-> "OptimizeWarning", n |-> pk])
                                ELSE stdout
                   /\ pc' = pc
    /\ UNCHANGED <<lookupVars, descVars, pureVars>>
    /\ UNCHANGED <<nmr_spec, peak_idx, peak_info, solver, errors, fitted_peaks,
                   lor_spec>>

\* run_curve_fits: the loop is exhausted; display(popt_list, pcov_list)
FitDisplay ==
    /\ pc = "fitting"
    /\ pk = Len(peak_idx)
    /\ stdout' = Append(stdout, [kind |-> "display", n |-> Len(popt_list)])
    /\ pc' = "fitted"
    /\ UNCHANGED <<lookupVars, descVars, pureVars>>
    /\ UNCHANGED <<nmr_spec, peak_idx, peak_info, solver, popt_list, pcov_list,
                   pk, calls, errors, fitted_peaks, lor_spec>>

\* Mutant of Errors: the square roots of the first row of each covariance
ErrorsFirstRow(pcovs) ==
    [i \in 1..Len(pcovs) |-> [j \in 1..Len(pcovs[i]) |-> Sqrt(pcovs[i][1][j])]]

\* errors = [np.sqrt(np.diag(pcov)) for pcov in pcov_list]
Errors(pcovs) ==
    [i \in 1..Len(pcovs) |-> [j \in 1..Len(pcovs[i]) |-> Sqrt(Diag(pcovs[i])[j])]]

\* Mutant of ReportLines: the header is printed before the loop test
RECURSIVE ReportLinesHeaderFirst(_, _, _)
ReportLinesHeaderFirst(popts, errs, i) ==
    <<[kind |-> "Peak", n |-> i + 1]>>
    \o (IF i >= Len(popts) THEN <<>>
        ELSE <<[kind |-> "report", n |-> i + 1,
                popt |-> At(popts, i), perr |-> At(errs, i)]>>
             \o ReportLinesHeaderFirst(popts, errs, i + 1))

\* for i, pk in enumerate(popt_list): print(f"Peak {i+1}"); report_peak_fit(pk, errors[i])
RECURSIVE ReportLines(_, _, _)
ReportLines(popts, errs, i) ==
    IF i >= Len(popts) THEN <<>>
    ELSE <<[kind |-> "Peak", n |-> i + 1],
           [kind |-> "report", n |-> i + 1,
            popt |-> At(popts, i), perr |-> At(errs, i)]>>
         \o ReportLines(popts, errs, i + 1)

Report ==
    /\ pc = "fitted"
    /\ errors' = Errors(pcov_list)
    /\ stdout' = stdout \o ReportLines(popt_list, Errors(pcov_list), 0)
    /\ pc' = "reported"
    /\ UNCHANGED <<lookupVars, descVars, pureVars>>
    /\ UNCHANGED <<nmr_spec, peak_idx, peak_info, solver, popt_list, pcov_list,
                   pk, calls, fitted_peaks, lor_spec>>

\* Mutant of collate_fitted_peak_parameters: centre and width change places
collateSwapped(popt) ==
    [ampl |-> popt[1], centre |-> popt[3], width |-> popt[2]]

\* collate_fitted_peak_parameters: dict(zip(["ampl", "centre", "width"], popt))
collate_fitted_peak_parameters(popt) ==
    [ampl |-> popt[1], centre |-> popt[2], width |-> popt[3]]

\* simulate_spectrum(peak_shape, x, peaks): the sum over the peaks of
\* peak_shape(x, **peak), one value per sample of x, returned with x
RECURSIVE SumShapes(_, _, _)
SumShapes(x, peaks, i) ==
    IF i > Len(peaks) THEN [pi_units |-> TRUE, num |-> 0, den |-> 1]
    ELSE RatAdd(lorentzian(x, peaks[i]["ampl"], peaks[i]["centre"], peaks[i]["width"]),
                SumShapes(x, peaks, i + 1))

simulate_spectrum(xs, peaks) ==
    [x |-> xs, y |-> [j \in 1..Len(xs) |-> SumShapes(xs[j], peaks, 1)]]

\* Mutant of Collate: the synthesizer works in place on the x axis it is given,
\* shifting it by the centre of the first peak
CollateInPlace ==
    /\ pc = "reported"
    /\ LET fp == [i \in 1..Len(popt_list) |->
                      collate_fitted_peak_parameters(popt_list[i])]
           shifted == [j \in 1..Len(nmr_spec["ppm"]) |->
                          nmr_spec["ppm"][j] - (IF fp = <<>> THEN 0 ELSE fp[1]["centre"])]
       IN  /\ fitted_peaks' = fp
           /\ lor_spec' = simulate_spectrum(nmr_spec["ppm"], fp)
           /\ nmr_spec' = [nmr_spec EXCEPT !["ppm"] = shifted]
    /\ pc' = "collated"
    /\ UNCHANGED <<lookupVars, descVars, pureVars>>
    /\ UNCHANGED <<peak_idx, peak_info, solver, popt_list, pcov_list,
                   pk, calls, errors, stdout>>

\* fitted_peaks = [collate_fitted_peak_parameters(popt) for popt in popt_list]
\* lor_spec_x, lor_spec_y = simulate_spectrum(lorentzian, nmr_spec["ppm"], fitted_peaks)
Collate ==
    /\ pc = "reported"
    /\ LET fp == [i \in 1..Len(popt_list) |->
                      collate_fitted_peak_parameters(popt_list[i])]
       IN  /\ fitted_peaks' = fp
           /\ lor_spec' = simulate_spectrum(nmr_spec["ppm"], fp)
    /\ pc' = "collated"
    /\ UNCHANGED <<lookupVars, descVars, pureVars>>
    /\ UNCHANGED <<nmr_spec, peak_idx, peak_info, solver, popt_list, pcov_list,
                   pk, calls, errors, stdout>>

Next ==
    \/ Locate
    \/ Tidy
    \/ StartFits
    \/ FitStep
    \/ FitDisplay
    \/ Report
    \/ Collate

Init == InitFit /\ IdleLookup /\ IdleDesc /\ IdlePure

Spec == Init /\ [][Next]_vars

\* ===================================================== claims: fit pipeline
NPeaks == Len(peak_idx)

\* The fit cell (run_curve_fits) has stopped, normally or by an exception
FitCellEnded == pc \in {"raised", "fitted", "reported", "collated"}

\* The fit loop ran to completion
FitLoopCompleted == pc \in {"fitted", "reported", "collated"}

\* What the solver returns for located peak k (0-based), started from k's own estimate
OwnFit(k) == solver[P0(peak_info, k)]

\* The results held in popt_list / pcov_list, keyed by the peak they belong to
StoredResults ==
    {[pk |-> i - 1, popt |-> popt_list[i], pcov |-> pcov_list[i]] :
        i \in 1..Len(popt_list)}

\* The loop body of run_curve_fits carried out over the located peaks in the
\* given order (the source uses range(len(peak_idx))): the results obtained,
\* keyed by peak.  As in the source, an exception ends the loop.
RECURSIVE FitsInOrder(_, _)
FitsInOrder(order, i) ==
    IF i > Len(order) THEN {}
    ELSE LET r == CurveFit("lorentzian", nmr_spec["ppm"], nmr_spec["intensity"],
                           P0(peak_info, order[i]))
         IN  IF r.kind = "raise" THEN {}
             ELSE {[pk |-> order[i], popt |-> r.popt, pcov |-> r.pcov]}
                  \cup FitsInOrder(order, i + 1)

\* All orders in which the located peaks can be processed
Orders ==
    {o \in [1..NPeaks -> 0..(NPeaks - 1)] : \A a, b \in 1..NPeaks : a # b => o[a] # o[b]}

\* C1 (as claimed): a failed fit for one peak does not prevent fitting the
\* others: when the fit cell has stopped, curve_fit has been invoked for every
\* located peak, and the result of every peak whose own fit does not raise is
\* stored in popt_list and pcov_list.
C1_FailedFitDoesNotStopOthers ==
    FitCellEnded =>
        \A k \in 0..(NPeaks - 1) :
            /\ \E c \in 1..Len(calls) : calls[c].pk = k
            /\ OwnFit(k).kind # "raise" =>
                   \E i \in 1..Len(popt_list) :
                       popt_list[i] = OwnFit(k).popt /\ pcov_list[i] = OwnFit(k).pcov

\* C2 (as claimed): a fit whose covariance could not be estimated (non-finite)
\* is never stored in popt_list / pcov_list as an ordinary fitted peak, so the
\* reporter never takes the square root of a non-finite covariance diagonal.
C2_NonFiniteFitNeverStored ==
    /\ \A i \in 1..Len(pcov_list) : IsFinite(pcov_list[i])
    /\ \A i \in 1..Len(errors) : \A j \in 1..Len(errors[i]) : ~errors[i][j].inf

\* C3: whenever the fit loop runs to completion, popt_list and pcov_list have
\* one entry per located peak, and entry i of both is the result of the fit of
\* located peak i, in the order of peak_idx.
C3_OneResultPerLocatedPeakInOrder ==
    FitLoopCompleted =>
        /\ Len(popt_list) = Len(peak_idx)
        /\ Len(pcov_list) = Len(peak_idx)
        /\ \A i \in 0..(NPeaks - 1) :
               /\ At(popt_list, i) = OwnFit(i).popt
               /\ At(pcov_list, i) = OwnFit(i).pcov

C3_Witness ==
    /\ pc = "fitted"
    /\ NPeaks = 2
    /\ popt_list[1] # popt_list[2]
    /\ pcov_list[1] # pcov_list[2]

\* C4: curve_fit is invoked at most once per located peak (never retried), and
\* a failure raised by curve_fit leaves the loop at once: it is the last call
\* made, the cell ends with the exception, and nothing is stored for that peak.
C4_FailureSurfacedNeverRetried ==
    /\ Len(calls) <= NPeaks
    /\ \A a, b \in 1..Len(calls) : a # b => calls[a].pk # calls[b].pk
    /\ \A c \in 1..Len(calls) :
           solver[calls[c].p0].kind = "raise" =>
               /\ pc = "raised"
               /\ c = Len(calls)
               /\ Len(popt_list) = c - 1
               /\ Len(pcov_list) = c - 1
               /\ stdout[Len(stdout)].kind = "RuntimeError"

C4_Witness ==
    /\ pc = "raised"
    /\ NPeaks = 2
    /\ Len(calls) = 1
    /\ OwnFit(0).kind = "raise"
    /\ OwnFit(1).kind = "ok"

\* C5 (as claimed): the result held for each located peak is the same in
\* whatever order the located peaks are processed: when the fit cell has
\* stopped, the results it holds are those that the loop would hold after
\* processing the peaks in any other order.
C5_ResultsIndependentOfOrder ==
    FitCellEnded => \A o \in Orders : FitsInOrder(o, 1) = StoredResults

\* C6: no step of the pipeline changes the ppm or the intensity sequence of
\* nmr_spec.
C6_SpectrumNeverMutated == [][nmr_spec' = nmr_spec]_vars

C6_Witness ==
    /\ pc = "collated"
    /\ Len(popt_list) = 2
    /\ Len(lor_spec.y) = Len(nmr_spec["intensity"])

\* C7: the k-th curve_fit call is the fit of located peak k; it is started from
\* p0 = [peak_heights[k] * widths[k], centres[k], widths[k]], where the height
\* and the centre are those of the spectrum at peak_idx[k], and it is given
\* the full ppm and intensity sequences of the spectrum.
C7_InitialGuessAndFullSpectrum ==
    /\ \A c \in 1..Len(calls) :
           /\ calls[c].pk = c - 1
           /\ calls[c].f = "lorentzian"
           /\ calls[c].p0 = <<peak_info["peak_heights"][c] * peak_info["widths"][c],
                              peak_info["centres"][c],
                              peak_info["widths"][c]>>
           /\ calls[c].p0[1] = At(nmr_spec["intensity"], peak_idx[c]) * peak_info["widths"][c]
           /\ calls[c].p0[2] = At(nmr_spec["ppm"], peak_idx[c])
           /\ calls[c].xdata = nmr_spec["ppm"]
           /\ calls[c].ydata = nmr_spec["intensity"]
           /\ Len(calls[c].xdata) = SpecLen
    /\ FitLoopCompleted => Len(calls) = NPeaks

C7_Witness ==
    /\ pc = "fitted"
    /\ Len(calls) = 2
    /\ peak_info["widths"][2] > 1
    /\ calls[2].p0[1] > peak_info["peak_heights"][2]

\* ============================================ ML_demo.ipynb: SMILES lookups
\* time.sleep(0.05), in milliseconds
SleepMs == 50

ROOT_URL == "https://cactus.nci.nih.gov/chemical/structure/"

NOT_FOUND == "not found"

Names == {"ethanol", "no-such-compound"}

\* What requests.get can come back with: an HTTP response (status and body),
\* or no response at all (a requests exception, e.g. ConnectionError).
Responses ==
    {[exc |-> FALSE, status_code |-> st, text |-> tx] :
        st \in {200, 404, 500}, tx \in {"CCO", "<h1>Page not found (404)</h1>"}}
    \cup {[exc |-> TRUE, status_code |-> 0, text |-> ""]}

\* Mutant of ResponseBool: "if response is not None", true of every response
ResponseNotNone(response) == TRUE

\* "if response:" requests.Response.__bool__ is Response.ok, false exactly
\* for the status codes raise_for_status raises on (400..599)
ResponseBool(response) ==
    ~(400 <= response.status_code /\ response.status_code < 600)

NGets == Cardinality({i \in 1..Len(lk_log) : lk_log[i].ev = "get"})

\* The call in progress: the name and the response of the last requests.get
LastGet == lk_log[CHOOSE i \in 1..Len(lk_log) :
                      lk_log[i].ev = "get" /\ \A j \in (i + 1)..Len(lk_log) : lk_log[j].ev # "get"]

\* response = requests.get(query_url): the call of get_smiles_from_name(name)
\* starts; the request is answered by a response, or throws and ends the call.
\* The time of an event is the time at which it has completed.
RequestsGet ==
    /\ lk_pc = "idle"
    /\ NGets < MaxLookups
    /\ \E name \in Names, response \in Responses :
           /\ lk_log' = Append(lk_log, [ev |-> "get", url |-> <<ROOT_URL, name, "/", "smiles">>,
                                        name |-> name, response |-> response, t |-> lk_clock])
           /\ lk_pc' = IF response.exc THEN "raised" ELSE "requested"
    /\ UNCHANGED lk_clock
    /\ UNCHANGED <<fitVars, descVars, pureVars>>

\* Mutant of TimeSleep: the pause is taken for a successful response only
TimeSleepOnSuccess ==
    /\ lk_pc = "requested"
    /\ IF ResponseBool(LastGet.response)
       THEN /\ lk_log' = Append(lk_log, [ev |-> "sleep", name |-> LastGet.name,
                                         t |-> lk_clock + SleepMs])
            /\ lk_clock' = lk_clock + SleepMs
       ELSE UNCHANGED <<lk_log, lk_clock>>
    /\ lk_pc' = "slept"
    /\ UNCHANGED <<fitVars, descVars, pureVars>>

\* time.sleep(0.05), before the response is looked at
TimeSleep ==
    /\ lk_pc = "requested"
    /\ lk_log' = Append(lk_log, [ev |-> "sleep", name |-> LastGet.name,
                                 t |-> lk_clock + SleepMs])
    /\ lk_clock' = lk_clock + SleepMs
    /\ lk_pc' = "slept"
    /\ UNCHANGED <<fitVars, descVars, pureVars>>

\* if response: return response.text
\* else: print(f"Failed to get SMILES for {name}"); return "not found"
LookupReturn ==
    /\ lk_pc = "slept"
    /\ lk_log' = lk_log \o
           (IF ResponseBool(LastGet.response)
            THEN <<[ev |-> "return", name |-> LastGet.name,
                    value |-> LastGet.response.text, t |-> lk_clock]>>
            ELSE <<[ev |-> "print", name |-> LastGet.name,
                    msg |-> <<"Failed to get SMILES for ", LastGet.name>>, t |-> lk_clock],
                   [ev |-> "return", name |-> LastGet.name, value |-> NOT_FOUND,
                    t |-> lk_clock]>>)
    /\ lk_pc' = "idle"
    /\ UNCHANGED lk_clock
    /\ UNCHANGED <<fitVars, descVars, pureVars>>

InitLookup ==
    /\ lk_log = <<>>
    /\ lk_clock = 0
    /\ lk_pc = "idle"
    /\ IdleFit
    /\ IdleDesc
    /\ IdlePure

NextLookup ==
    \/ RequestsGet
    \/ TimeSleep
    \/ LookupReturn

SpecLookup == InitLookup /\ [][NextLookup]_vars

\* ------------------------------------------------------- claims: lookups
\* Positions of the events of one kind
EventsAt(kind) == {i \in 1..Len(lk_log) : lk_log[i].ev = kind}

\* The request that the event at position j belongs to: the last get before it
GetOf(j) == CHOOSE i \in EventsAt("get") : i < j /\ \A g \in EventsAt("get") : g < j => g <= i

\* C8: every call that returns has paused after its HTTP request, whether the
\* response was successful or not, and between any two consecutive requests of
\* a series lies a pause: the later request starts at least SleepMs after the
\* earlier one.
C8_PauseAfterEveryRequest ==
    /\ \A j \in EventsAt("return") :
           \E i \in EventsAt("sleep") : GetOf(j) < i /\ i < j
    /\ \A a, b \in EventsAt("get") :
           a < b => /\ \E i \in EventsAt("sleep") : a < i /\ i < b
                    /\ lk_log[b].t - lk_log[a].t >= SleepMs

C8_Witness ==
    \E a, b \in EventsAt("get") :
        /\ a < b
        /\ ~ResponseBool(lk_log[a].response)
        /\ \E j \in EventsAt("return") : a < j /\ j < b

\* C9: a call whose response is successful returns the response text and
\* prints nothing; a call whose response is unsuccessful prints the failure
\* message for its name and returns "not found", not the error body; an
\* unsuccessful status never makes the call raise: every request that got a
\* response has returned, or is the call still in progress.
C9_TextOrSentinel ==
    /\ \A g \in EventsAt("get") :
           ~lk_log[g].response.exc =>
               \/ \E j \in EventsAt("return") : GetOf(j) = g
               \/ /\ lk_pc \in {"requested", "slept"}
                  /\ \A h \in EventsAt("get") : h <= g
    /\ \A j \in EventsAt("return") :
           LET resp == lk_log[GetOf(j)].response
               printed == {i \in EventsAt("print") : GetOf(j) < i /\ i < j}
               success == resp.status_code < 400
           IN  /\ success => lk_log[j].value = resp.text /\ printed = {}
               /\ ~success =>
                      /\ lk_log[j].value = "not found"
                      /\ lk_log[j].value # resp.text
                      /\ \E i \in printed :
                             lk_log[i].msg = <<"Failed to get SMILES for ", lk_log[j].name>>
    /\ lk_pc = "raised" => lk_log[Len(lk_log)].response.exc

C9_Witness ==
    \E j, k \in EventsAt("return") :
        /\ lk_log[GetOf(j)].response.status_code = 404
        /\ lk_log[j].value = "not found"
        /\ lk_log[GetOf(k)].response.status_code = 200
        /\ lk_log[k].value = "CCO"

\* =========================================== ML_demo.ipynb: getMolDescriptors
\* Python values of the result dictionary: a number, or None
Val(v) == [none |-> FALSE, v |-> v]
NoneVal == [none |-> TRUE, v |-> 0]

\* Names of Descriptors._descList, in the order of the table
DescNames ==
    <<"MaxAbsEStateIndex", "MaxEStateIndex", "MinAbsEStateIndex",
      "MinEStateIndex", "qed", "SPS", "MolWt", "HeavyAtomMolWt">>

\* Descriptors._descList: (name, function) pairs; a function is named by its
\* position in the table
DescList == [i \in 1..DescCount |-> [nm |-> DescNames[i], fn |-> i - 1]]

\* Python list indexing table[idx]: negative indices count from the end
ValidIndex(table, idx) == -Len(table) <= idx /\ idx < Len(table)
Index(table, idx) == IF idx < 0 THEN table[Len(table) + idx + 1] ELSE table[idx + 1]

\* fn(mol): the molecule is described by the set of descriptor functions that
\* throw on it; the others return a number
FnRaises(fn, mol) == fn \in mol.fails
FnValue(fn, mol) == Val(100 + fn)

\* Python dictionary, kept in insertion order: d[key] = val
DictKeys(d) == {d[i].key : i \in 1..Len(d)}
DictGet(d, key) == (CHOOSE e \in Range(d) : e.key = key).val
\* Mutant of DictSet: every assignment adds an entry, also for a key already present
DictSetAppend(d, key, val) == Append(d, [key |-> key, val |-> val])

DictSet(d, key, val) ==
    IF key \in DictKeys(d)
    THEN [i \in 1..Len(d) |-> IF d[i].key = key THEN [key |-> key, val |-> val] ELSE d[i]]
    ELSE Append(d, [key |-> key, val |-> val])

\* descriptor_list: None, or a list of table indices
NoneList == [none |-> TRUE, items |-> <<>>]
DescriptorLists ==
    {NoneList} \cup
    {[none |-> FALSE, items |-> l] :
        l \in UNION {[1..n -> (-1)..DescCount] : n \in 0..MaxListLen}}

DescArgs ==
    {[version |-> v, mol |-> [fails |-> F], descriptor_list |-> dl, missingVal |-> mv] :
        v \in {"demo", "workshop"}, F \in SUBSET (0..(DescCount - 1)),
        dl \in DescriptorLists, mv \in {NoneVal, Val(0)}}

\* Mutant of ListFalsy: only None counts as "no list"
ListIsNone(dl) == dl.none

\* "not(descriptor_list)": None and the empty list are falsy
ListFalsy(dl) == dl.none \/ dl.items = <<>>

\* Entry into getMolDescriptors: res = {} and the choice of the descriptors.
\*   demo version:     if not(descriptor_list): descriptors = Descriptors._descList
\*                     else: descriptors = [Descriptors._descList[idx] for idx in descriptor_list]
\*   workshop version: if descriptor_list is None: loop over Descriptors._descList
\*                     else: pass
DescCall ==
    /\ d_pc = "idle"
    /\ \E a \in DescArgs :
           /\ d_args' = a
           /\ res' = <<>>
           /\ d_i' = 0
           /\ d_failed' = {}
           /\ IF a.version = "demo"
              THEN IF ListFalsy(a.descriptor_list)
                   THEN descriptors' = DescList /\ d_pc' = "loop"
                   ELSE IF \A n \in 1..Len(a.descriptor_list.items) :
                               ValidIndex(DescList, a.descriptor_list.items[n])
                        THEN /\ descriptors' =
                                    [n \in 1..Len(a.descriptor_list.items) |->
                                        Index(DescList, a.descriptor_list.items[n])]
                             /\ d_pc' = "loop"
                        ELSE descriptors' = <<>> /\ d_pc' = "raised"
              ELSE IF a.descriptor_list.none
                   THEN descriptors' = DescList /\ d_pc' = "loop"
                   ELSE descriptors' = <<>> /\ d_pc' = "loop"
    /\ UNCHANGED <<fitVars, lookupVars, pureVars>>

\* Mutant of DescStep: a descriptor whose function raises is skipped
DescStepSkip ==
    /\ d_pc = "loop"
    /\ d_i < Len(descriptors)
    /\ LET nm == At(descriptors, d_i).nm
           fn == At(descriptors, d_i).fn
       IN  IF FnRaises(fn, d_args.mol)
           THEN /\ d_failed' = d_failed \cup {nm}
                /\ res' = res
           ELSE /\ d_failed' = d_failed
                /\ res' = DictSet(res, nm, FnValue(fn, d_args.mol))
    /\ d_i' = d_i + 1
    /\ UNCHANGED <<d_args, descriptors, d_pc>>
    /\ UNCHANGED <<fitVars, lookupVars, pureVars>>

\* One iteration of "for nm,fn in descriptors": try: val = fn(mol)
\* except: traceback.print_exc(); val = missingVal -- then res[nm] = val
DescStep ==
    /\ d_pc = "loop"
    /\ d_i < Len(descriptors)
    /\ LET nm == At(descriptors, d_i).nm
           fn == At(descriptors, d_i).fn
       IN  IF FnRaises(fn, d_args.mol)
           THEN /\ d_failed' = d_failed \cup {nm}
                /\ res' = DictSet(res, nm, d_args.missingVal)
           ELSE /\ d_failed' = d_failed
                /\ res' = DictSet(res, nm, FnValue(fn, d_args.mol))
    /\ d_i' = d_i + 1
    /\ UNCHANGED <<d_args, descriptors, d_pc>>
    /\ UNCHANGED <<fitVars, lookupVars, pureVars>>

\* return res
DescReturn ==
    /\ d_pc = "loop"
    /\ d_i = Len(descriptors)
    /\ d_pc' = "returned"
    /\ UNCHANGED <<d_args, descriptors, d_i, res, d_failed>>
    /\ UNCHANGED <<fitVars, lookupVars, pureVars>>

InitDesc ==
    /\ d_args = [version |-> "none"]
    /\ descriptors = <<>>
    /\ d_i = 0
    /\ res = <<>>
    /\ d_failed = {}
    /\ d_pc = "idle"
    /\ IdleFit
    /\ IdleLookup
    /\ IdlePure

NextDesc ==
    \/ DescCall
    \/ DescStep
    \/ DescReturn

SpecDesc == InitDesc /\ [][NextDesc]_vars

\* --------------------------------------------------- claims: descriptors
\* The table positions (0-based) the call selects: those of descriptor_list,
\* or the whole table when no list is given
SelectedFns ==
    IF d_args.descriptor_list.none \/ d_args.descriptor_list.items = <<>>
    THEN 0..(DescCount - 1)
    ELSE {IF x < 0 THEN DescCount + x ELSE x : x \in Range(d_args.descriptor_list.items)}

\* C10: when the function of a selected descriptor has raised, the call still
\* returns normally; the result then has exactly one entry per selected
\* descriptor name, missingVal for every descriptor whose function raised and
\* the computed value for every other one.
C10_FailedDescriptorGetsMissingVal ==
    /\ (d_pc = "returned" /\ d_failed # {}) =>
           /\ DictKeys(res) = {DescNames[f + 1] : f \in SelectedFns}
           /\ Len(res) = Cardinality(SelectedFns)
           /\ \A f \in SelectedFns :
                  DictGet(res, DescNames[f + 1]) =
                      IF f \in d_args.mol.fails THEN d_args.missingVal
                      ELSE Val(100 + f)
           /\ d_failed = {DescNames[f + 1] : f \in SelectedFns \cap d_args.mol.fails}
    /\ d_pc = "raised" => d_failed = {}
    /\ (d_pc = "loop" /\ d_failed # {}) => ENABLED (DescStep \/ DescReturn)

C10_Witness ==
    /\ d_pc = "returned"
    /\ Cardinality(d_failed) = 1
    /\ Len(res) = 2
    /\ res[1].val = d_args.missingVal
    /\ res[2].val = Val(100 + At(descriptors, 1).fn)

\* ======================================================================
\* The peak-shape functions on a sampled axis (gen_peaks snippet)
\* ======================================================================
Abs(n) == IF n < 0 THEN -n ELSE n

\* gaussian(x_array, ampl, centre, width) at one sample x:
\*   sigma = width/np.sqrt(8*np.log(2))
\*   ampl*(1/(sigma*np.sqrt(2*np.pi)))*np.exp(-(x-centre)**2/(2*sigma**2))
\* With sigma a multiple of width the value is
\*   (coef_num/coef_den) * sqrt(8 ln2 / (2 pi)) * exp(ln2 * exp_num/exp_den):
\* coef_den carries the divisor sigma*sqrt(2 pi), exp_den the divisor 2*sigma**2.
gaussian(x, ampl, centre, width) ==
    [k_units |-> TRUE,
     coef_num |-> ampl,
     coef_den |-> width,
     exp_num |-> -4 * (x - centre) * (x - centre),
     exp_den |-> width * width]

\* The divisions of the two functions: a zero divisor is numpy's division by
\* zero (RuntimeWarning and nan or inf on arrays, ZeroDivisionError on plain
\* Python floats)
LorDividesByZero(v) == v.den = 0

GaussDividesByZero(v) == v.coef_den = 0 \/ v.exp_den = 0

\* x has been sampled and the shape parameters chosen; nothing is evaluated
InitShape ==
    /\ gp_x \in [1..NSamples -> 0..MaxX]
    /\ gp_args \in [ampl : (-1)..MaxIntensity, centre : 0..MaxX, width : 0..MaxWidth]
    /\ y_lor = <<>>
    /\ y_gauss = <<>>
    /\ gp_pc = "sampled"
    /\ IdleCells
    /\ IdleR2 /\ IdleLocate /\ IdleConvert /\ IdleML /\ IdleFrame

\* y_lor = lorentzian(x, ampl, centre, width)
GenLorentzian ==
    /\ gp_pc = "sampled"
    /\ y_lor' = [i \in 1..Len(gp_x) |->
                    lorentzian(gp_x[i], gp_args.ampl, gp_args.centre, gp_args.width)]
    /\ gp_pc' = "lor"
    /\ UNCHANGED <<gp_x, gp_args, y_gauss>>
    /\ UNCHANGED <<fitVars, lookupVars, descVars, frameVars, r2Vars, locVars, convVars, mlVars>>

\* y_gauss = gaussian(x, ampl, centre, width)
GenGaussian ==
    /\ gp_pc = "lor"
    /\ y_gauss' = [i \in 1..Len(gp_x) |->
                      gaussian(gp_x[i], gp_args.ampl, gp_args.centre, gp_args.width)]
    /\ gp_pc' = "done"
    /\ UNCHANGED <<gp_x, gp_args, y_lor>>
    /\ UNCHANGED <<fitVars, lookupVars, descVars, frameVars, r2Vars, locVars, convVars, mlVars>>

NextShape ==
    \/ GenLorentzian
    \/ GenGaussian

SpecShape == InitShape /\ [][NextShape]_vars

\* Order of two Lorentzian values with positive denominators
LorLess(a, b) == a.num * b.den < b.num * a.den

LorSame(a, b) == a.num * b.den = b.num * a.den

\* C11: for ampl > 0 and width > 0 the Lorentzian at a sample lying on the
\* centre is 2*ampl/(pi*width), and over the samples the value strictly
\* decreases as the distance to the centre grows (equal distances give equal
\* values), so its maximum is attained exactly at the samples nearest the centre.
C11_LorentzianPeakAtCentre ==
    (gp_pc \in {"lor", "done"} /\ gp_args.ampl > 0 /\ gp_args.width > 0) =>
        LET dist(i) == Abs(gp_x[i] - gp_args.centre)
            I == 1..Len(gp_x)
        IN  /\ Len(y_lor) = Len(gp_x)
            /\ \A i \in I :
                   /\ y_lor[i].den > 0
                   /\ gp_x[i] = gp_args.centre =>
                          y_lor[i].num * gp_args.width = 2 * gp_args.ampl * y_lor[i].den
            /\ \A i, j \in I :
                   /\ dist(i) < dist(j) => LorLess(y_lor[j], y_lor[i])
                   /\ dist(i) = dist(j) => LorSame(y_lor[i], y_lor[j])
            /\ \A i \in I :
                   (\A j \in I : dist(i) <= dist(j))
                       <=> (\A j \in I : ~LorLess(y_lor[i], y_lor[j]))

\* A curve with a sample on the centre and samples at two other distances
C11_Witness ==
    /\ gp_pc = "lor"
    /\ gp_args.ampl > 0
    /\ gp_args.width > 0
    /\ \E i, j, k \in 1..Len(gp_x) :
           /\ gp_x[i] = gp_args.centre
           /\ Abs(gp_x[j] - gp_args.centre) > 0
           /\ Abs(gp_x[k] - gp_args.centre) > Abs(gp_x[j] - gp_args.centre)
           /\ LorLess(y_lor[k], y_lor[j])
           /\ LorLess(y_lor[j], y_lor[i])

\* C12 (as amended): with width > 0 neither function divides by zero at any
\* sample, centre and amplitude; with width = 0 the gaussian divides by zero
\* at every sample, the lorentzian exactly at the samples lying on the centre
\* (elsewhere its value is 0 and no division by zero takes place).
C12_DivisionByZeroOnlyAtZeroWidth ==
    gp_pc = "done" =>
        \A i \in 1..Len(gp_x) :
            /\ gp_args.width > 0 =>
                   ~LorDividesByZero(y_lor[i]) /\ ~GaussDividesByZero(y_gauss[i])
            /\ gp_args.width = 0 =>
                   /\ GaussDividesByZero(y_gauss[i])
                   /\ LorDividesByZero(y_lor[i]) <=> gp_x[i] = gp_args.centre
                   /\ gp_x[i] # gp_args.centre => y_lor[i].num = 0

\* Zero width, one sample on the centre and one off it
C12_Witness ==
    /\ gp_pc = "done"
    /\ gp_args.width = 0
    /\ \E i, j \in 1..Len(gp_x) :
           /\ gp_x[i] = gp_args.centre
           /\ gp_x[j] # gp_args.centre
           /\ LorDividesByZero(y_lor[i])
           /\ ~LorDividesByZero(y_lor[j])
           /\ GaussDividesByZero(y_gauss[j])

\* C12 as stated: no division by zero with width > 0, and with width = 0
\* evaluating either function divides by zero.
C12_ZeroWidthAlwaysDivides ==
    gp_pc = "done" =>
        /\ gp_args.width > 0 =>
               \A i \in 1..Len(gp_x) :
                   ~LorDividesByZero(y_lor[i]) /\ ~GaussDividesByZero(y_gauss[i])
        /\ gp_args.width = 0 =>
               /\ \E i \in 1..Len(gp_x) : LorDividesByZero(y_lor[i])
               /\ \E i \in 1..Len(gp_x) : GaussDividesByZero(y_gauss[i])

\* ======================================================================
\* spectrum_analysis.ipynb: the manual r^2 cell
\* ======================================================================
RECURSIVE SumSeq(_)
SumSeq(s) == IF s = <<>> THEN 0 ELSE Head(s) + SumSeq(Tail(s))

\* (a - b)**2 element by element, summed
SumSqDiff(a, b) == SumSeq([i \in 1..Len(a) |-> (a[i] - b[i]) * (a[i] - b[i])])

\* ((y - y.mean())**2).sum() as the exact fraction num/den, den = len(y):
\* sum (y_i - S/n)^2 = (n * sum y_i^2 - S^2) / n
TotalSumSquares(y) ==
    [num |-> Len(y) * SumSeq([i \in 1..Len(y) |-> y[i] * y[i]]) - SumSeq(y) * SumSeq(y),
     den |-> Len(y)]

NAN == [kind |-> "nan", num |-> 0, den |-> 1]

NEG_INF == [kind |-> "-inf", num |-> 0, den |-> 1]

\* A finite float with the exact value n/d, d > 0
Num(n, d) == [kind |-> "num", num |-> n, den |-> d]

\* 1-(SSR/SST) in numpy floats: 0/0 is nan and 1 - nan is nan; a positive
\* SSR over 0 is inf and 1 - inf is -inf; otherwise (SST - SSR)/SST.
OneMinusRatio(ssr, sst) ==
    IF sst.num = 0
    THEN IF ssr = 0 THEN NAN ELSE NEG_INF
    ELSE Num(sst.num - ssr * sst.den, sst.num)

\* lor_spec_y and nmr_spec["intensity"] are two sequences of equal length
InitR2 ==
    /\ \E n \in 1..MaxR2Len :
           r2_args \in [calc : [1..n -> 0..MaxIntensity], obs : [1..n -> 0..MaxIntensity]]
    /\ SSR = 0
    /\ SST = <<>>
    /\ r2 = <<>>
    /\ r2_pc = "ready"
    /\ IdleCells
    /\ IdleShape /\ IdleLocate /\ IdleConvert /\ IdleML /\ IdleFrame

\* residuals = lor_spec_y - nmr_spec["intensity"]
\* SSR = (residuals ** 2).sum()
\* SST = ((nmr_spec["intensity"] - nmr_spec["intensity"].mean())**2).sum()
\* r2 = 1-(SSR/SST)
ManualR2 ==
    /\ r2_pc = "ready"
    /\ LET ssr == SumSqDiff(r2_args.calc, r2_args.obs)
           sst == TotalSumSquares(r2_args.obs)
       IN  /\ SSR' = ssr
           /\ SST' = sst
           /\ r2' = OneMinusRatio(ssr, sst)
    /\ r2_pc' = "done"
    /\ UNCHANGED r2_args
    /\ UNCHANGED <<fitVars, lookupVars, descVars, frameVars, shapeVars, locVars, convVars, mlVars>>

NextR2 == ManualR2

SpecR2 == InitR2 /\ [][NextR2]_vars

\* The float v is exactly the integer k
FloatIs(v, k) == v.kind = "num" /\ v.num = k * v.den

\* The float v is greater than 1
FloatExceedsOne(v) == v.kind = "num" /\ v.num > v.den

\* The calculated sequence is the constant mean of the observed one
IsConstantMean(calc, obs) ==
    \A i \in 1..Len(calc) : calc[i] * Len(obs) = SumSeq(obs)

\* C13: r2 is exactly 1 when the calculated sequence equals the observed one,
\* exactly 0 when the calculated sequence is the constant mean of the observed
\* one, and never exceeds 1.
C13_R2PerfectZeroAndBound ==
    r2_pc = "done" =>
        /\ r2_args.calc = r2_args.obs => FloatIs(r2, 1)
        /\ IsConstantMean(r2_args.calc, r2_args.obs) => FloatIs(r2, 0)
        /\ ~FloatExceedsOne(r2)

\* ======================================================================
\* ML_demo.ipynb: split, linear regression, r2 score, MinMax scaling
\* ======================================================================
\* The feature matrix has one column; a feature value is the exact fraction
\* num/den, and all values of one array share their denominator.
Q(n, d) == [num |-> n, den |-> d]

\* train_test_split with test_size=0.2: n_test = ceil(0.2 * n) of the n rows
\* go to the test set, the other n - n_test to the training set
NTest(n) == (n + 4) \div 5

Numerators(X) == [i \in 1..Len(X) |-> X[i].num]

SeqMin(s) == CHOOSE v \in Range(s) : \A w \in Range(s) : v <= w

SeqMax(s) == CHOOSE v \in Range(s) : \A w \in Range(s) : v >= w

\* LinearRegression().fit(X, y), ordinary least squares with intercept on one
\* feature.  With x the numerators of X, n = len(X):
\*   coef_ = (n*Sxy - Sx*Sy)/(n*Sxx - Sx*Sx), intercept_ = (Sy - coef_*Sx)/n,
\* and for a constant column (zero denominator) the minimum-norm solution
\* coef_ = 0, intercept_ = mean(y).  The fitted model is kept as the integers
\* num0, num1, den with predict(x) = (num0 + num1 * x.num)/den.
LinearRegressionFit(X, y) ==
    LET x == Numerators(X)
        n == Len(x)
        Sx == SumSeq(x)
        Sy == SumSeq(y)
        Sxy == SumSeq([i \in 1..n |-> x[i] * y[i]])
        Sxx == SumSeq([i \in 1..n |-> x[i] * x[i]])
        Db == n * Sxx - Sx * Sx
        Nb == n * Sxy - Sx * Sy
    IN  IF Db = 0
        THEN [num0 |-> Sy, num1 |-> 0, den |-> n, xden |-> X[1].den]
        ELSE [num0 |-> Sy * Db - Nb * Sx, num1 |-> n * Nb, den |-> n * Db,
              xden |-> X[1].den]

\* reg.predict(X)
Predict(model, X) ==
    [i \in 1..Len(X) |-> Q(model.num0 + model.num1 * X[i].num, model.den)]

\* Sum of squared residuals of predictions with common denominator:
\* [num, den] = sum (y_i - p_i)^2
ResidualSumSquares(y, pred) ==
    [num |-> SumSeq([i \in 1..Len(y) |->
                        (pred[i].den * y[i] - pred[i].num) * (pred[i].den * y[i] - pred[i].num)]),
     den |-> pred[1].den * pred[1].den]

\* sklearn.metrics.r2_score(y_true, y_pred), which reg.score returns:
\* nan (with an UndefinedMetricWarning) for fewer than two samples, otherwise
\* 1 - SSR/SST, and for a constant y_true 1.0 when the prediction is perfect,
\* 0.0 otherwise.
R2Score(y, pred) ==
    LET ssr == ResidualSumSquares(y, pred)
        sst == TotalSumSquares(y)
    IN  IF Len(y) < 2 THEN NAN
        ELSE IF sst.num = 0
        THEN IF ssr.num = 0 THEN Num(1, 1) ELSE Num(0, 1)
        ELSE Num(ssr.den * sst.num - ssr.num * sst.den, ssr.den * sst.num)

\* MinMaxScaler().fit(X): per-feature minimum and maximum; a zero range is
\* replaced by 1 before scale_ = 1/range is formed
MinMaxFit(X) ==
    LET lo == SeqMin(Numerators(X))
        hi == SeqMax(Numerators(X))
    IN  [data_min |-> lo, data_max |-> hi,
         data_range |-> IF hi = lo THEN 1 ELSE hi - lo]

\* The double that x * scale_ + min_ evaluates to, with scale_ = 1.0/range and
\* min_ = 0.0 - data_min * scale_, against the double nearest to the quotient
\* (x - data_min)/range: 1 when it is the greater, -1 when it is the smaller,
\* 0 when they are the same double.  IEEE-754 binary64, tabulated for the
\* integers 0 <= x <= 6 and 0 <= data_min < data_max <= 6.
ScaleRounding(x, lo, hi) ==
    IF <<x, lo, hi>> \in {<<3, 0, 5>>, <<6, 0, 5>>, <<3, 1, 4>>, <<3, 1, 6>>, <<4, 1, 6>>,
                          <<6, 1, 6>>, <<3, 2, 5>>, <<6, 2, 5>>} THEN 1
    ELSE IF <<x, lo, hi>> \in {<<5, 0, 3>>, <<5, 0, 6>>, <<5, 2, 5>>, <<1, 3, 6>>,
                               <<2, 3, 6>>, <<4, 3, 6>>, <<5, 3, 6>>} THEN -1
    ELSE 0

\* scaler.transform(X): X * scale_ + min_, nothing being clipped.  A scaled
\* value is the fraction (x - data_min)/data_range together with the side on
\* which the computed double lies of it (ulp); with a zero range scale_ is 1
\* and the arithmetic is exact.
MinMaxTransform(sc, X) ==
    [i \in 1..Len(X) |->
        [num |-> X[i].num - sc.data_min, den |-> sc.data_range,
         ulp |-> IF sc.data_max = sc.data_min THEN 0
                 ELSE ScaleRounding(X[i].num, sc.data_min, sc.data_max)]]

\* Arrays of n values of the one feature: small integers, among them a
\* minimum and a maximum whose scaling is inexact in doubles
Features(n) == [1..n -> {Q(v, 1) : v \in {0, 1, 6}}]

\* X_train, X_test, y_train, y_test = train_test_split(X_full, y_full,
\* test_size=0.2, random_state=42) of n rows: any rows in any order, n_test of
\* them in the test set
InitML ==
    /\ \E n \in 2..MaxRows :
           /\ X_train \in Features(n - NTest(n))
           /\ y_train \in [1..(n - NTest(n)) -> 0..MaxBp]
           /\ X_test \in Features(NTest(n))
           /\ y_test \in [1..NTest(n) -> 0..MaxBp]
    /\ reg = <<>>
    /\ ml_r2 = <<>>
    /\ scaler = <<>>
    /\ scaled_X_train = <<>>
    /\ scaled_X_test = <<>>
    /\ ml_pc = "split"
    /\ IdleCells
    /\ IdleShape /\ IdleR2 /\ IdleLocate /\ IdleConvert /\ IdleFrame

\* reg = linear_model.LinearRegression(); reg.fit(X_train, y_train)
RegFit ==
    /\ ml_pc = "split"
    /\ reg' = LinearRegressionFit(X_train, y_train)
    /\ ml_pc' = "fitted"
    /\ UNCHANGED <<X_train, X_test, y_train, y_test, ml_r2, scaler,
                   scaled_X_train, scaled_X_test>>
    /\ UNCHANGED <<fitVars, lookupVars, descVars, frameVars, shapeVars, r2Vars, locVars, convVars>>

\* r2 = reg.score(X_test, y_test)
RegScore ==
    /\ ml_pc = "fitted"
    /\ ml_r2' = R2Score(y_test, Predict(reg, X_test))
    /\ ml_pc' = "scored"
    /\ UNCHANGED <<X_train, X_test, y_train, y_test, reg, scaler,
                   scaled_X_train, scaled_X_test>>
    /\ UNCHANGED <<fitVars, lookupVars, descVars, frameVars, shapeVars, r2Vars, locVars, convVars>>

\* The same split again (same random_state), then
\* scaler = MinMaxScaler(); scaler.fit(X_train)
\* scaled_X_train = scaler.transform(X_train)
\* scaled_X_test = scaler.transform(X_test)
Scale ==
    /\ ml_pc = "scored"
    /\ LET sc == MinMaxFit(X_train)
       IN  /\ scaler' = sc
           /\ scaled_X_train' = MinMaxTransform(sc, X_train)
           /\ scaled_X_test' = MinMaxTransform(sc, X_test)
    /\ ml_pc' = "scaled"
    /\ UNCHANGED <<X_train, X_test, y_train, y_test, reg, ml_r2>>
    /\ UNCHANGED <<fitVars, lookupVars, descVars, frameVars, shapeVars, r2Vars, locVars, convVars>>

\* reg = linear_model.LinearRegression(); reg.fit(scaled_X_train, y_train)
RegFitScaled ==
    /\ ml_pc = "scaled"
    /\ reg' = LinearRegressionFit(scaled_X_train, y_train)
    /\ ml_pc' = "refitted"
    /\ UNCHANGED <<X_train, X_test, y_train, y_test, ml_r2, scaler,
                   scaled_X_train, scaled_X_test>>
    /\ UNCHANGED <<fitVars, lookupVars, descVars, frameVars, shapeVars, r2Vars, locVars, convVars>>

\* r2 = reg.score(scaled_X_test, y_test)
RegScoreScaled ==
    /\ ml_pc = "refitted"
    /\ ml_r2' = R2Score(y_test, Predict(reg, scaled_X_test))
    /\ ml_pc' = "rescored"
    /\ UNCHANGED <<X_train, X_test, y_train, y_test, reg, scaler,
                   scaled_X_train, scaled_X_test>>
    /\ UNCHANGED <<fitVars, lookupVars, descVars, frameVars, shapeVars, r2Vars, locVars, convVars>>

NextML ==
    \/ RegFit
    \/ RegScore
    \/ Scale
    \/ RegFitScaled
    \/ RegScoreScaled

SpecML == InitML /\ [][NextML]_vars

\* C14: the r2 score of the fitted regression on the test set ranges from 0
\* to 1: whenever the model has been scored, on the raw or on the scaled
\* features, r2 is a number and 0 <= r2 <= 1.
C14_ScoreBetweenZeroAndOne ==
    ml_pc \in {"scored", "rescored"} =>
        /\ ml_r2.kind = "num"
        /\ 0 <= ml_r2.num
        /\ ml_r2.num <= ml_r2.den

\* C20: after MinMax scaling, with the scaler fitted on X_train only, every
\* value of scaled_X_train and of scaled_X_test lies in [0, 1]: the fraction
\* does, and at 0 and 1 the computed double is not on the outer side.
C20_AllScaledInUnitInterval ==
    ml_pc \in {"scaled", "refitted", "rescored"} =>
        LET InUnitInterval(v) ==
                /\ 0 <= v.num
                /\ v.num <= v.den
                /\ ~(v.num = 0 /\ v.ulp < 0)
                /\ ~(v.num = v.den /\ v.ulp > 0)
        IN  /\ scaler = MinMaxFit(X_train)
            /\ \A i \in 1..Len(scaled_X_train) : InUnitInterval(scaled_X_train[i])
            /\ \A j \in 1..Len(scaled_X_test) : InUnitInterval(scaled_X_test[j])

\* ======================================================================
\* spectrum_analysis.ipynb: find_peaks without and with thresholds
\* ======================================================================
\* An optional argument of find_peaks: None, or a minimum
NoThreshold == [given |-> FALSE, min |-> 0]

AtLeast(v) == [given |-> TRUE, min |-> v]

Thresholds ==
    [height : {NoThreshold} \cup {AtLeast(v) : v \in 1..MaxIntensity},
     prominence : {NoThreshold} \cup {AtLeast(v) : v \in 1..MaxIntensity}]

\* Mutant of FindPeaks: the signal is clipped from below at the minimum
\* height before the maxima are searched
FindPeaksClipped(x, thr) ==
    LET clipped == [j \in 1..Len(x) |->
                       IF thr.height.given /\ x[j] < thr.height.min
                       THEN thr.height.min ELSE x[j]]
    IN  {i \in LocalMaxima(clipped) :
            thr.prominence.given => Prominence(x, i) >= thr.prominence.min}

\* scipy.signal.find_peaks(x, height=, prominence=): the local maxima, of
\* which those are kept whose height and whose prominence reach the minimum
\* that is given
FindPeaks(x, thr) ==
    {i \in LocalMaxima(x) :
        /\ thr.height.given => At(x, i) >= thr.height.min
        /\ thr.prominence.given => Prominence(x, i) >= thr.prominence.min}

InitLocate ==
    /\ fp_y \in [1..LocLen -> 0..MaxIntensity]
    /\ fp_all = {}
    /\ fp_thr = <<>>
    /\ fp_sel = {}
    /\ fp_pc = "loaded"
    /\ IdleCells
    /\ IdleShape /\ IdleR2 /\ IdleConvert /\ IdleML /\ IdleFrame

\* peak_idx, peak_info = find_peaks(nmr_spec["intensity"])
FindPeaksAll ==
    /\ fp_pc = "loaded"
    /\ fp_all' = FindPeaks(fp_y, [height |-> NoThreshold, prominence |-> NoThreshold])
    /\ fp_pc' = "all"
    /\ UNCHANGED <<fp_y, fp_thr, fp_sel>>
    /\ UNCHANGED <<fitVars, lookupVars, descVars, frameVars, shapeVars, r2Vars, convVars, mlVars>>

\* The call modified to filter the peaks: any minimum height and prominence
FindPeaksFilter ==
    /\ fp_pc = "all"
    /\ \E thr \in Thresholds :
           /\ fp_thr' = thr
           /\ fp_sel' = FindPeaks(fp_y, thr)
    /\ fp_pc' = "filtered"
    /\ UNCHANGED <<fp_y, fp_all>>
    /\ UNCHANGED <<fitVars, lookupVars, descVars, frameVars, shapeVars, r2Vars, convVars, mlVars>>

NextLocate ==
    \/ FindPeaksAll
    \/ FindPeaksFilter

SpecLocate == InitLocate /\ [][NextLocate]_vars

\* The interior samples higher than both their neighbours (0-based indices)
StrictMaxima(x) ==
    {i \in 1..(Len(x) - 2) : At(x, i - 1) < At(x, i) /\ At(x, i) > At(x, i + 1)}

\* C15: without thresholds the locator returns every interior sample higher
\* than its neighbours (and nothing that is lower than a neighbour or at an
\* end of the sequence); with a minimum height and/or prominence it returns a
\* subset of the unthresholded result, all of whose members meet the minima.
C15_ThresholdsOnlyRemove ==
    /\ fp_pc \in {"all", "filtered"} =>
           /\ StrictMaxima(fp_y) \subseteq fp_all
           /\ \A i \in fp_all :
                  /\ 1 <= i /\ i <= Len(fp_y) - 2
                  /\ At(fp_y, i - 1) <= At(fp_y, i)
                  /\ At(fp_y, i) >= At(fp_y, i + 1)
    /\ fp_pc = "filtered" =>
           /\ fp_sel \subseteq fp_all
           /\ \A i \in fp_sel : fp_thr.height.given => At(fp_y, i) >= fp_thr.height.min
           /\ (~fp_thr.height.given /\ ~fp_thr.prominence.given) => fp_sel = fp_all

\* A noise maximum removed by the thresholds, a real peak kept
C15_Witness ==
    /\ fp_pc = "filtered"
    /\ fp_thr.height.given
    /\ fp_sel # {}
    /\ fp_sel # fp_all
    /\ StrictMaxima(fp_y) \ fp_sel # {}

\* The two-peak synthetic spectra: exactly two samples, interior and not
\* adjacent, reach the level lvl; every other sample (the baseline) is below it
PeakSamples(y, lvl) == {i \in 0..(Len(y) - 1) : At(y, i) >= lvl}

NoiseFloor(y, lvl) ==
    LET base == {At(y, i) : i \in (0..(Len(y) - 1)) \ PeakSamples(y, lvl)}
    IN  CHOOSE v \in base : \A w \in base : w <= v

IsTwoPeakSpectrum(y, lvl) ==
    LET P == PeakSamples(y, lvl)
    IN  /\ Cardinality(P) = 2
        /\ \A i \in P : 1 <= i /\ i <= Len(y) - 2
        /\ \A i, j \in P : i # j => Abs(i - j) > 1

\* Noise-free: the baseline is flat
IsClean(y, lvl) ==
    \A i, j \in (0..(Len(y) - 1)) \ PeakSamples(y, lvl) : At(y, i) = At(y, j)

\* The thresholds lie above the noise floor: a minimum height between the
\* floor and the peaks, and a minimum prominence (if any) not above the
\* excess of that height over the floor
AboveNoiseFloor(y, thr) ==
    /\ thr.height.given
    /\ IsTwoPeakSpectrum(y, thr.height.min)
    /\ thr.prominence.given =>
           thr.prominence.min <= thr.height.min - NoiseFloor(y, thr.height.min)

\* C16 (as amended): on a two-peak synthetic spectrum the locator with
\* thresholds above the noise floor returns exactly the 2 peaks; without
\* thresholds it returns these 2 and, in addition, every local maximum of the
\* baseline noise: exactly 2 candidates when the spectrum is clean (flat
\* baseline), more than 2 only when the noise has a local maximum.
C16_TwoPeaksAboveNoiseFloor ==
    (fp_pc = "filtered" /\ AboveNoiseFloor(fp_y, fp_thr)) =>
        LET P == PeakSamples(fp_y, fp_thr.height.min)
        IN  /\ fp_sel = P
            /\ Cardinality(fp_sel) = 2
            /\ P \subseteq fp_all
            /\ IsClean(fp_y, fp_thr.height.min) => fp_all = P
            /\ Cardinality(fp_all) > 2 <=>
                   \E i \in fp_all : At(fp_y, i) < fp_thr.height.min

\* Two peaks and a noise maximum: 3 candidates without thresholds, 2 with
C16_Witness ==
    /\ fp_pc = "filtered"
    /\ AboveNoiseFloor(fp_y, fp_thr)
    /\ fp_thr.prominence.given
    /\ ~IsClean(fp_y, fp_thr.height.min)
    /\ Cardinality(fp_all) > 2
    /\ Cardinality(fp_sel) = 2

\* C16 as stated: on a clean two-peak synthetic spectrum the locator returns
\* more than 2 candidates without thresholds and exactly 2 with thresholds
\* above the noise floor.
C16_CleanSpectrumManyCandidates ==
    (fp_pc = "filtered" /\ AboveNoiseFloor(fp_y, fp_thr)
        /\ IsClean(fp_y, fp_thr.height.min)) =>
        /\ Cardinality(fp_all) > 2
        /\ Cardinality(fp_sel) = 2

\* ======================================================================
\* spectrum_analysis.ipynb: peak centres and widths in ppm
\* ======================================================================
\* The filtered find_peaks call leaves "just the two real resonances"
TwoResonances == 2

\* Mutant of MeanAbsSpacing: the mean of the signed differences
MeanSpacing(x) ==
    Q(SumSeq([i \in 1..(Len(x) - 1) |-> x[i + 1] - x[i]]), Len(x) - 1)

\* Mean absolute spacing between adjacent x samples, ppm.diff().abs().mean():
\* the exact fraction [num, den]
MeanAbsSpacing(x) ==
    Q(SumSeq([i \in 1..(Len(x) - 1) |-> Abs(x[i + 1] - x[i])]), Len(x) - 1)

\* Centre = x[index]
PeakCentresPpm(x, idx) == [k \in 1..Len(idx) |-> At(x, idx[k])]

\* Width_physical = width_samples * (mean absolute spacing)
WidthsPpm(x, w) ==
    [k \in 1..Len(w) |-> Q(w[k] * MeanAbsSpacing(x).num, MeanAbsSpacing(x).den)]

InitConvert ==
    /\ cv_ppm \in [1..NSamples -> 0..MaxPpm]
    /\ \E S \in SUBSET (0..(NSamples - 1)) :
           /\ Cardinality(S) <= TwoResonances
           /\ cv_idx = SortedSeq(S)
           /\ cv_widths \in [1..Cardinality(S) -> 0..MaxWidth]
    /\ centres = <<>>
    /\ widths_ppm = <<>>
    /\ cv_pc = "located"
    /\ IdleCells
    /\ IdleShape /\ IdleR2 /\ IdleLocate /\ IdleML /\ IdleFrame

\* peak_info["centres"]: the ppm values at the peak indices
PeakCentres ==
    /\ cv_pc = "located"
    /\ centres' = PeakCentresPpm(cv_ppm, cv_idx)
    /\ cv_pc' = "centres"
    /\ UNCHANGED <<cv_ppm, cv_idx, cv_widths, widths_ppm>>
    /\ UNCHANGED <<fitVars, lookupVars, descVars, frameVars, shapeVars, r2Vars, locVars, mlVars>>

\* peak_info["widths"]: the widths in ppm
PeakWidths ==
    /\ cv_pc = "centres"
    /\ widths_ppm' = WidthsPpm(cv_ppm, cv_widths)
    /\ cv_pc' = "widths"
    /\ UNCHANGED <<cv_ppm, cv_idx, cv_widths, centres>>
    /\ UNCHANGED <<fitVars, lookupVars, descVars, frameVars, shapeVars, r2Vars, locVars, mlVars>>

NextConvert ==
    \/ PeakCentres
    \/ PeakWidths

SpecConvert == InitConvert /\ [][NextConvert]_vars

\* The axis is uniformly sampled with spacing d, ascending or descending
IsUniform(x, d) ==
    \/ \A i \in 1..(Len(x) - 1) : x[i + 1] - x[i] = d
    \/ \A i \in 1..(Len(x) - 1) : x[i] - x[i + 1] = d

\* C17: every peak's centre is x[index]; every width in ppm is non-negative
\* and is width_samples times the mean absolute spacing of the axis; on an
\* axis uniformly sampled with spacing d, ascending or descending, it is
\* exactly width_samples * d.
C17_CentresAndWidthsInPpm ==
    /\ cv_pc \in {"centres", "widths"} =>
           /\ Len(centres) = Len(cv_idx)
           /\ \A k \in 1..Len(cv_idx) : centres[k] = cv_ppm[cv_idx[k] + 1]
    /\ cv_pc = "widths" =>
           /\ Len(widths_ppm) = Len(cv_widths)
           /\ \A k \in 1..Len(cv_widths) :
                  /\ widths_ppm[k].den > 0
                  /\ widths_ppm[k].num >= 0
                  /\ \A d \in 0..MaxPpm :
                         IsUniform(cv_ppm, d) =>
                             widths_ppm[k].num = cv_widths[k] * d * widths_ppm[k].den

\* A descending axis with spacing 2 and a peak two samples wide
C17_Witness ==
    /\ cv_pc = "widths"
    /\ cv_ppm[1] > cv_ppm[2]
    /\ IsUniform(cv_ppm, 2)
    /\ \E k \in 1..Len(cv_widths) :
           /\ cv_widths[k] = 2
           /\ widths_ppm[k].num = 4 * widths_ppm[k].den
           /\ centres[k] = cv_ppm[cv_idx[k] + 1]

\* ======================================================================
\* spectrum_analysis.ipynb: the report and the synthesized spectrum
\* ======================================================================
\* The sum of the Lorentzians of the first n fitted parameter vectors at the
\* sample x, accumulated from the left
RECURSIVE LorentzianSum(_, _, _)
LorentzianSum(x, popts, n) ==
    IF n = 0 THEN [pi_units |-> TRUE, num |-> 0, den |-> 1]
    ELSE RatAdd(LorentzianSum(x, popts, n - 1),
                lorentzian(x, At(popts[n], 0), At(popts[n], 1), At(popts[n], 2)))

\* C18: the synthesized spectrum has one value per x sample, and at every
\* sample it equals the sum over the fitted peaks of the Lorentzian with that
\* peak's (ampl, centre, width); fitted_peaks holds one dictionary per entry
\* of popt_list, in order, with popt positions 0, 1, 2 under the keys ampl,
\* centre, width.
C18_SpectrumIsSumOfFittedPeaks ==
    pc = "collated" =>
        /\ Len(fitted_peaks) = Len(popt_list)
        /\ \A i \in 0..(Len(popt_list) - 1) :
               /\ DOMAIN At(fitted_peaks, i) = {"ampl", "centre", "width"}
               /\ At(fitted_peaks, i)["ampl"] = At(At(popt_list, i), 0)
               /\ At(fitted_peaks, i)["centre"] = At(At(popt_list, i), 1)
               /\ At(fitted_peaks, i)["width"] = At(At(popt_list, i), 2)
        /\ lor_spec.x = nmr_spec["ppm"]
        /\ Len(lor_spec.y) = Len(nmr_spec["ppm"])
        /\ \A j \in 1..Len(lor_spec.y) :
               /\ lor_spec.y[j].den > 0
               /\ LorSame(lor_spec.y[j],
                          LorentzianSum(nmr_spec["ppm"][j], popt_list, Len(popt_list)))

\* Two fitted peaks with different centres, and a sample where both contribute
C18_Witness ==
    /\ pc = "collated"
    /\ Len(fitted_peaks) = 2
    /\ fitted_peaks[1]["centre"] # fitted_peaks[2]["centre"]
    /\ fitted_peaks[1]["centre"] # fitted_peaks[1]["width"]
    /\ \E j \in 1..Len(lor_spec.y) :
           /\ LorLess(lorentzian(lor_spec.x[j], fitted_peaks[1]["ampl"],
                                 fitted_peaks[1]["centre"], fitted_peaks[1]["width"]),
                      lor_spec.y[j])
           /\ LorLess(lorentzian(lor_spec.x[j], fitted_peaks[2]["ampl"],
                                 fitted_peaks[2]["centre"], fitted_peaks[2]["width"]),
                      lor_spec.y[j])

\* The float e is the square root of the float v
IsSqrtOf(e, v) == IF v.inf THEN e.inf ELSE ~e.inf /\ e.val >= 0 /\ e.val * e.val = v.val

\* C19: once the report has run, errors has exactly one vector per fitted
\* peak, the square roots of the diagonal of that peak's covariance matrix,
\* and the report printed, for i = 0..n-1 in popt_list order, the heading
\* "Peak i+1" followed by popt_list[i] paired with errors[i], and nothing else.
C19_OneErrorVectorPerPeakInOrder ==
    pc \in {"reported", "collated"} =>
        /\ Len(errors) = Len(popt_list)
        /\ Len(errors) = Len(pcov_list)
        /\ \A i \in 0..(Len(pcov_list) - 1) :
               /\ Len(At(errors, i)) = Len(At(pcov_list, i))
               /\ \A j \in 0..(Len(At(pcov_list, i)) - 1) :
                      IsSqrtOf(At(At(errors, i), j), At(At(At(pcov_list, i), j), j))
        /\ LET n == Len(popt_list)
               first == Len(stdout) - 2 * n
           IN  /\ first >= 0
               /\ \A m \in 1..first : stdout[m].kind \notin {"Peak", "report"}
               /\ \A i \in 0..(n - 1) :
                      /\ stdout[first + 2 * i + 1] = [kind |-> "Peak", n |-> i + 1]
                      /\ stdout[first + 2 * i + 2] =
                             [kind |-> "report", n |-> i + 1,
                              popt |-> At(popt_list, i), perr |-> At(errors, i)]

\* Two peaks with different parameters and different errors were reported
C19_Witness ==
    /\ pc = "reported"
    /\ Len(popt_list) = 2
    /\ popt_list[1] # popt_list[2]
    /\ errors[1] # errors[2]
    /\ ~errors[1][3].inf
    /\ errors[1][3].val = 3
    /\ stdout[Len(stdout)].kind = "report"
    /\ stdout[Len(stdout)].perr = errors[2]

\* ======================================================================
\* The width of the Lorentzian
\* ======================================================================
\* C22: for ampl > 0 and width > 0, a sample half a width away from the
\* centre, on either side, has exactly half the value of a sample on the
\* centre, and two samples at mirrored positions about the centre have the
\* same value; the half-maximum relation holds for every width, odd widths
\* included.
C22_WidthIsFullWidthAtHalfMaximum ==
    (gp_pc \in {"lor", "done"} /\ gp_args.ampl > 0 /\ gp_args.width > 0) =>
        \A i, j \in 1..Len(gp_x) :
            /\ (gp_x[i] = gp_args.centre /\ 2 * Abs(gp_x[j] - gp_args.centre) = gp_args.width)
                   => /\ y_lor[j].den > 0
                      /\ 2 * y_lor[j].num * y_lor[i].den = y_lor[i].num * y_lor[j].den
            /\ gp_x[i] - gp_args.centre = gp_args.centre - gp_x[j]
                   => LorSame(y_lor[i], y_lor[j])
            \* the same on an axis of half the step, where half of every
            \* width is a sample position
            /\ LET top == lorentzian(2 * gp_args.centre, gp_args.ampl,
                                     2 * gp_args.centre, 2 * gp_args.width)
                   half(sgn) == lorentzian(2 * gp_args.centre + sgn * gp_args.width,
                                           gp_args.ampl, 2 * gp_args.centre,
                                           2 * gp_args.width)
               IN  \A sgn \in {-1, 1} :
                       2 * half(sgn).num * top.den = top.num * half(sgn).den

\* Samples on the centre and half a width to its left and to its right
C22_Witness ==
    /\ gp_pc = "lor"
    /\ gp_args.ampl > 0
    /\ gp_args.width > 0
    /\ \E i, j, k \in 1..Len(gp_x) :
           /\ gp_x[i] = gp_args.centre
           /\ 2 * (gp_x[j] - gp_args.centre) = gp_args.width
           /\ 2 * (gp_args.centre - gp_x[k]) = gp_args.width
           /\ LorSame(y_lor[j], y_lor[k])
           /\ LorLess(y_lor[j], y_lor[i])

\* ======================================================================
\* ML_demo.ipynb: which descriptors getMolDescriptors returns
\* ======================================================================
\* C23: the ML demo version, given a non-empty descriptor_list of valid
\* indices, returns a mapping whose keys are exactly the names found at those
\* indices of the descriptor table, each once, in the order in which the
\* indices first name them; given None it returns one entry per descriptor of
\* the table, in table order.
C23_KeysAreSelectedNamesInOrder ==
    (d_pc = "returned" /\ d_args.version = "demo") =>
        LET items == d_args.descriptor_list.items
            picked == [n \in 1..Len(items) |->
                          DescNames[IF items[n] < 0 THEN DescCount + items[n] + 1
                                    ELSE items[n] + 1]]
            first(k) == CHOOSE n \in 1..Len(picked) :
                            picked[n] = k /\ \A m \in 1..(n - 1) : picked[m] # k
        IN  /\ (~d_args.descriptor_list.none /\ items # <<>>) =>
                   /\ DictKeys(res) = Range(picked)
                   /\ Len(res) = Cardinality(Range(picked))
                   /\ \A a, b \in 1..Len(res) :
                          a < b => first(res[a].key) < first(res[b].key)
            /\ d_args.descriptor_list.none =>
                   /\ Len(res) = DescCount
                   /\ \A i \in 1..DescCount : res[i].key = DescNames[i]

\* Two indices in descending order: the keys come out in that order
C23_Witness ==
    /\ d_pc = "returned"
    /\ d_args.version = "demo"
    /\ ~d_args.descriptor_list.none
    /\ Len(d_args.descriptor_list.items) = 2
    /\ d_args.descriptor_list.items[1] = 2
    /\ d_args.descriptor_list.items[2] = 0
    /\ Len(res) = 2
    /\ res[1].key = DescNames[3]
    /\ res[2].key = DescNames[1]

\* C24: the ML demo version treats the empty descriptor_list like None and
\* returns the full descriptor set; the workshop version returns an empty
\* mapping for every descriptor_list that is not None; for None both return
\* the same mapping (the full set), and for every other list their results
\* differ, the demo version never returning an empty mapping.
C24_EmptyListDemoVersusWorkshop ==
    d_pc = "returned" =>
        LET full == [i \in 1..DescCount |->
                        [key |-> DescNames[i],
                         val |-> IF (i - 1) \in d_args.mol.fails
                                 THEN d_args.missingVal ELSE Val(100 + i - 1)]]
            dl == d_args.descriptor_list
        IN  /\ dl.none => res = full
            /\ (d_args.version = "demo" /\ ~dl.none /\ dl.items = <<>>) => res = full
            /\ (d_args.version = "workshop" /\ ~dl.none) => res = <<>>
            /\ d_args.version = "demo" => res # <<>>

\* The demo version has returned the full set for the empty list
C24_Witness ==
    /\ d_pc = "returned"
    /\ d_args.version = "demo"
    /\ ~d_args.descriptor_list.none
    /\ d_args.descriptor_list.items = <<>>
    /\ Len(res) = DescCount

\* ======================================================================
\* spectrum_analysis.ipynb: no peak located
\* ======================================================================
\* C28: when the locator has returned no candidate, the fit loop calls
\* curve_fit zero times and leaves popt_list and pcov_list empty, no cell
\* raises, the list of error vectors is empty, and the only output is the
\* display of the two empty lists: no "Peak" header and no report is printed.
\* The loop's exit and the report cell are enabled, so the run goes through.
C28_NoPeakNoFitNoReport ==
    (pc # "loaded" /\ peak_idx = <<>>) =>
        /\ pc # "raised"
        /\ calls = <<>>
        /\ popt_list = <<>>
        /\ pcov_list = <<>>
        /\ errors = <<>>
        /\ \A n \in 1..Len(stdout) : stdout[n] = [kind |-> "display", n |-> 0]
        /\ pc = "fitting" => (ENABLED FitDisplay /\ ~ENABLED FitStep)
        /\ pc = "fitted" => ENABLED Report
        /\ pc \in {"reported", "collated"} => Len(stdout) = 1

\* A spectrum with local maxima, none of them kept, has been reported on
C28_Witness ==
    /\ pc = "reported"
    /\ peak_idx = <<>>
    /\ LocalMaxima(nmr_spec["intensity"]) # {}
    /\ errors = <<>>
    /\ stdout = <<[kind |-> "display", n |-> 0]>>

\* ======================================================================
\* ML_demo.ipynb: the data frame, from the CSV file to the two splits
\* ======================================================================
\* A data frame is [columns, rows]: the set of its column names and the
\* sequence of its rows [index, cols], a row's index label and its cells by
\* column name.  A Series is a frame of one column.

\* SMILES strings of the file: methanol, ethanol, or the sentinel
\* get_smiles_from_name returns when the lookup failed
SmilesValues == {NOT_FOUND, "CO", "CCO"}

\* The files: FrameRows compounds, told apart by their names 1, 2, ...; any
\* of them may carry the sentinel in place of its SMILES
CsvFiles ==
    {[i \in 1..FrameRows |->
         [c \in {"Class", "IUPAC name", "#C", "#H", "Molweight g/mol", "mp / dC",
                 "bp / dC", "SMILES"} |->
             CASE c = "Class" -> "1-alkanol"
               [] c = "IUPAC name" -> i
               [] c = "SMILES" -> sm[i]
               [] c = "#C" -> Val(i)
               [] c = "#H" -> Val(2 * i + 2)
               [] c = "Molweight g/mol" -> Val(18 + 14 * i)
               [] c = "mp / dC" -> Val(0)
               [] c = "bp / dC" -> Val(60 + i)]] : sm \in [1..FrameRows -> SmilesValues]}

\* Mutant of DropNotFound: the comparison is made with another sentinel
DropNoSmiles(df) ==
    [df EXCEPT !.rows = SelectSeq(df.rows, LAMBDA r : r.cols["SMILES"] # "")]

\* bp_df[bp_df["SMILES"] != "not found"]: boolean-mask selection, labels kept
DropNotFound(df) ==
    [df EXCEPT !.rows = SelectSeq(df.rows, LAMBDA r : r.cols["SMILES"] # NOT_FOUND)]

\* Mutant of ResetIndex: the rows keep the labels they had
KeepIndex(df) == df

\* .reset_index(drop=True): a fresh RangeIndex, the old labels discarded
ResetIndex(df) ==
    [df EXCEPT !.rows = [i \in 1..Len(df.rows) |-> [df.rows[i] EXCEPT !.index = i - 1]]]

\* .drop(columns=names), errors="raise" being the default: KeyError when one
\* of the names is not a column of the frame
DropColumns(df, names) ==
    IF ~(names \subseteq df.columns) THEN [exception |-> "KeyError"]
    ELSE [columns |-> df.columns \ names,
          rows |-> [i \in 1..Len(df.rows) |->
                       [df.rows[i] EXCEPT !.cols = [c \in df.columns \ names |-> @[c]]]]]

\* Chem.MolFromSmiles: None for a string that is not SMILES
MolFromSmiles(smiles) ==
    IF smiles = NOT_FOUND THEN [none |-> TRUE, smiles |-> ""]
    ELSE [none |-> FALSE, smiles |-> smiles]

\* getMolDescriptors(mol, descriptor_list): the heavy-atom count stands for the
\* selected descriptors; on None every descriptor function throws and the
\* value is missingVal = None
MolDescriptors(mol) ==
    [HeavyAtomCount |-> IF mol.none THEN NoneVal
                        ELSE IF mol.smiles = "CO" THEN Val(2) ELSE Val(3)]

\* pd.concat([a, b], axis=1): outer join on the index labels, the labels of a
\* first; a cell whose frame has no row of that label is NaN
ConcatColumns(a, b) ==
    LET has(df, l) == \E i \in 1..Len(df.rows) : df.rows[i].index = l
        cells(df, l) == IF has(df, l)
                        THEN df.rows[CHOOSE i \in 1..Len(df.rows) : df.rows[i].index = l].cols
                        ELSE [c \in df.columns |-> NAN]
        extra == SelectSeq(b.rows, LAMBDA r : ~has(a, r.index))
        labels == [i \in 1..Len(a.rows) |-> a.rows[i].index]
                  \o [i \in 1..Len(extra) |-> extra[i].index]
    IN  [columns |-> a.columns \cup b.columns,
         rows |-> [i \in 1..Len(labels) |->
                      [index |-> labels[i],
                       cols |-> cells(a, labels[i]) @@ cells(b, labels[i])]]]

\* train_test_split(X, y, test_size=0.2, random_state=42) for n >= 2 rows:
\* n_test = ceil(0.2 * n), n_train = n - n_test; the first n_test entries of
\* the seeded permutation are the test rows, the others the training rows
TrainTestSplit(X, y, perm) ==
    LET n == Len(X.rows)
        n_test == NTest(n)
    IN  [X_train |-> [X EXCEPT !.rows = [k \in 1..(n - n_test) |-> X.rows[perm[n_test + k]]]],
         X_test  |-> [X EXCEPT !.rows = [k \in 1..n_test |-> X.rows[perm[k]]]],
         y_train |-> [y EXCEPT !.rows = [k \in 1..(n - n_test) |-> y.rows[perm[n_test + k]]]],
         y_test  |-> [y EXCEPT !.rows = [k \in 1..n_test |-> y.rows[perm[k]]]]]

\* bp_df = pd.read_csv(...): the rows of the file under a RangeIndex.
\* RandomState(42).permutation(n) is a fixed but unknown function of n: any
\* permutation of the rows that will be split.
InitFrame ==
    /\ csv \in CsvFiles
    /\ bp_df = [columns |-> DOMAIN csv[1],
                rows |-> [i \in 1..Len(csv) |-> [index |-> i - 1, cols |-> csv[i]]]]
    /\ shuffle \in {q \in [1..Len(DropNotFound(bp_df).rows) -> 1..Len(DropNotFound(bp_df).rows)] :
                       \A a, b \in DOMAIN q : q[a] = q[b] => a = b}
    /\ descriptor_df = <<>>
    /\ X_full = <<>>
    /\ y_full = <<>>
    /\ split1 = <<>>
    /\ split2 = <<>>
    /\ fr_pc = "loaded"
    /\ IdleCells
    /\ IdleShape /\ IdleR2 /\ IdleLocate /\ IdleConvert /\ IdleML

\* bp_df = bp_df[bp_df["SMILES"] != "not found"].reset_index(drop=True)
\* bp_df = bp_df.drop(columns=["mp / dC"])
FilterRows ==
    /\ fr_pc = "loaded"
    /\ LET filtered == ResetIndex(DropNotFound(bp_df))
           dropped == DropColumns(filtered, {"mp / dC"})
       IN  IF "exception" \in DOMAIN dropped
           THEN bp_df' = filtered /\ fr_pc' = "raised"
           ELSE bp_df' = dropped /\ fr_pc' = "filtered"
    /\ UNCHANGED <<csv, shuffle, descriptor_df, X_full, y_full, split1, split2>>
    /\ UNCHANGED <<fitVars, lookupVars, descVars, shapeVars, r2Vars, locVars, convVars, mlVars>>

\* PandasTools.AddMoleculeColumnToFrame(bp_df, smilesCol="SMILES")
AddMoleculeColumnToFrame ==
    /\ fr_pc = "filtered"
    /\ bp_df' = [columns |-> bp_df.columns \cup {"ROMol"},
                 rows |-> [i \in 1..Len(bp_df.rows) |->
                              [bp_df.rows[i] EXCEPT !.cols =
                                  @ @@ [ROMol |-> MolFromSmiles(@["SMILES"])]]]]
    /\ fr_pc' = "molecules"
    /\ UNCHANGED <<csv, shuffle, descriptor_df, X_full, y_full, split1, split2>>
    /\ UNCHANGED <<fitVars, lookupVars, descVars, shapeVars, r2Vars, locVars, convVars, mlVars>>

\* calc_descriptors = [getMolDescriptors(mol, ...) for mol in bp_df["ROMol"]]
\* descriptor_df = pd.DataFrame(calc_descriptors): the columns are the keys of
\* the dictionaries, none for the empty list
CalcDescriptors ==
    /\ fr_pc = "molecules"
    /\ descriptor_df' =
           [columns |-> IF bp_df.rows = <<>> THEN {} ELSE {"HeavyAtomCount"},
            rows |-> [i \in 1..Len(bp_df.rows) |->
                         [index |-> i - 1,
                          cols |-> MolDescriptors(bp_df.rows[i].cols["ROMol"])]]]
    /\ fr_pc' = "described"
    /\ UNCHANGED <<csv, shuffle, bp_df, X_full, y_full, split1, split2>>
    /\ UNCHANGED <<fitVars, lookupVars, descVars, shapeVars, r2Vars, locVars, convVars, mlVars>>

\* bp_df = pd.concat([bp_df, descriptor_df], axis=1)
Concat ==
    /\ fr_pc = "described"
    /\ bp_df' = ConcatColumns(bp_df, descriptor_df)
    /\ fr_pc' = "joined"
    /\ UNCHANGED <<csv, shuffle, descriptor_df, X_full, y_full, split1, split2>>
    /\ UNCHANGED <<fitVars, lookupVars, descVars, shapeVars, r2Vars, locVars, convVars, mlVars>>

\* prep_df = bp_df.drop(columns=cols_drop)
\* y_full = prep_df["bp / dC"] ; X_full = prep_df.drop(columns=["bp / dC"])
Prepare ==
    /\ fr_pc = "joined"
    /\ LET prep_df == DropColumns(bp_df, {"#C", "#H", "IUPAC name", "SMILES", "ROMol", "Class"})
       IN  IF "exception" \in DOMAIN prep_df
           THEN fr_pc' = "raised" /\ UNCHANGED <<X_full, y_full>>
           ELSE /\ y_full' = DropColumns(prep_df, prep_df.columns \ {"bp / dC"})
                /\ X_full' = DropColumns(prep_df, {"bp / dC"})
                /\ fr_pc' = "prepared"
    /\ UNCHANGED <<csv, shuffle, bp_df, descriptor_df, split1, split2>>
    /\ UNCHANGED <<fitVars, lookupVars, descVars, shapeVars, r2Vars, locVars, convVars, mlVars>>

\* X_train, X_test, y_train, y_test = train_test_split(X_full, y_full,
\* test_size=0.2, random_state=42); with fewer than two rows the training set
\* would be empty and train_test_split raises ValueError
Split ==
    /\ fr_pc = "prepared"
    /\ IF Len(X_full.rows) < 2
       THEN fr_pc' = "raised" /\ UNCHANGED split1
       ELSE fr_pc' = "split" /\ split1' = TrainTestSplit(X_full, y_full, shuffle)
    /\ UNCHANGED <<csv, shuffle, bp_df, descriptor_df, X_full, y_full, split2>>
    /\ UNCHANGED <<fitVars, lookupVars, descVars, shapeVars, r2Vars, locVars, convVars, mlVars>>

\* The scaling cell: the same call once more
SplitAgain ==
    /\ fr_pc = "split"
    /\ split2' = TrainTestSplit(X_full, y_full, shuffle)
    /\ fr_pc' = "resplit"
    /\ UNCHANGED <<csv, shuffle, bp_df, descriptor_df, X_full, y_full, split1>>
    /\ UNCHANGED <<fitVars, lookupVars, descVars, shapeVars, r2Vars, locVars, convVars, mlVars>>

NextFrame ==
    \/ FilterRows
    \/ AddMoleculeColumnToFrame
    \/ CalcDescriptors
    \/ Concat
    \/ Prepare
    \/ Split
    \/ SplitAgain

SpecFrame == InitFrame /\ [][NextFrame]_vars

\* The two splits on their own: X_full and y_full of up to MaxRows rows have
\* been prepared, and RandomState(42) may draw any permutation of them
InitSplit ==
    /\ \E n \in 0..MaxRows :
           /\ X_full = [columns |-> {"Molweight g/mol", "HeavyAtomCount"},
                        rows |-> [i \in 1..n |->
                                     [index |-> i - 1,
                                      cols |-> [c \in {"Molweight g/mol", "HeavyAtomCount"} |->
                                                   IF c = "HeavyAtomCount" THEN Val(2 + (i % 2))
                                                   ELSE Val(18 + 14 * i)]]]]
           /\ y_full = [columns |-> {"bp / dC"},
                        rows |-> [i \in 1..n |->
                                     [index |-> i - 1,
                                      cols |-> [c \in {"bp / dC"} |-> Val(60 + i)]]]]
           /\ shuffle \in {q \in [1..n -> 1..n] : \A a, b \in 1..n : q[a] = q[b] => a = b}
    /\ csv = <<>>
    /\ bp_df = <<>>
    /\ descriptor_df = <<>>
    /\ split1 = <<>>
    /\ split2 = <<>>
    /\ fr_pc = "prepared"
    /\ IdleCells
    /\ IdleShape /\ IdleR2 /\ IdleLocate /\ IdleConvert /\ IdleML

SpecSplit == InitSplit /\ [][Split \/ SplitAgain]_vars

\* ------------------------------------------------ claims: the data frame
\* C25: after the filtering step no row of bp_df has the sentinel "not found"
\* as its SMILES, the rows are exactly the rows of the file with any other
\* SMILES, in the order of the file, the index is 0..n-1 without gaps, and
\* every molecule of the ROMol column is built from the SMILES of its row,
\* none from the sentinel.
C25_SentinelRowsDroppedIndexReset ==
    fr_pc \notin {"off", "loaded"} =>
        LET kept == SelectSeq(csv, LAMBDA row : row["SMILES"] # "not found")
        IN  /\ Len(bp_df.rows) = Len(kept)
            /\ \A i \in 1..Len(bp_df.rows) :
                   LET row == bp_df.rows[i]
                   IN  /\ row.cols["SMILES"] # "not found"
                       /\ row.cols["IUPAC name"] = kept[i]["IUPAC name"]
                       /\ row.cols["SMILES"] = kept[i]["SMILES"]
                       /\ row.cols["bp / dC"] = kept[i]["bp / dC"]
                       /\ row.index = i - 1
                       /\ "ROMol" \in DOMAIN row.cols =>
                              /\ ~row.cols["ROMol"].none
                              /\ row.cols["ROMol"].smiles = kept[i]["SMILES"]

\* A sentinel row between two rows that stay; the molecules have been built
C25_Witness ==
    /\ fr_pc = "molecules"
    /\ csv[1]["SMILES"] # NOT_FOUND
    /\ csv[2]["SMILES"] = NOT_FOUND
    /\ csv[3]["SMILES"] # NOT_FOUND
    /\ Len(bp_df.rows) < Len(csv)
    /\ bp_df.rows[2].cols["IUPAC name"] = 3
    /\ bp_df.rows[2].index = 1

\* C26: after the column-wise concatenation, whichever rows the filter
\* removed, bp_df has as many rows as before it, no cell is a padded NaN, and
\* row i still is the compound it was and carries the descriptors computed
\* from the molecule of row i.
C26_ConcatKeepsRowsAligned ==
    fr_pc \in {"joined", "prepared", "split", "resplit", "raised"} =>
        LET kept == SelectSeq(csv, LAMBDA row : row["SMILES"] # "not found")
        IN  /\ Len(bp_df.rows) = Len(kept)
            /\ Len(bp_df.rows) = Len(descriptor_df.rows)
            /\ \A i \in 1..Len(bp_df.rows) :
                   LET row == bp_df.rows[i]
                   IN  /\ row.index = i - 1
                       /\ DOMAIN row.cols = (DOMAIN csv[1] \ {"mp / dC"})
                                                \cup {"ROMol", "HeavyAtomCount"}
                       /\ \A c \in {"#C", "#H", "Molweight g/mol", "bp / dC", "ROMol",
                                    "HeavyAtomCount"} : row.cols[c] # NAN
                       /\ row.cols["IUPAC name"] = kept[i]["IUPAC name"]
                       /\ row.cols["ROMol"].smiles = kept[i]["SMILES"]
                       /\ row.cols["HeavyAtomCount"] =
                              IF kept[i]["SMILES"] = "CO" THEN Val(2) ELSE Val(3)

\* The first row was removed and the rows left are different molecules
C26_Witness ==
    /\ fr_pc = "joined"
    /\ csv[1]["SMILES"] = NOT_FOUND
    /\ Len(bp_df.rows) = Len(csv) - 1
    /\ bp_df.rows[1].cols["HeavyAtomCount"] = Val(2)
    /\ bp_df.rows[2].cols["HeavyAtomCount"] = Val(3)
    /\ bp_df.rows[1].cols["ROMol"].smiles = "CO"

\* C27: the two train_test_split calls return the same partition, training
\* and test rows are disjoint and together are the rows of X_full, features
\* and targets of the same position are the same row, and the test set holds
\* 20% of the rows.
C27_TestSetIsTwentyPercent ==
    fr_pc = "resplit" =>
        LET labels(df) == {df.rows[k].index : k \in 1..Len(df.rows)}
            aligned(X, y) ==
                /\ Len(X.rows) = Len(y.rows)
                /\ \A k \in 1..Len(X.rows) :
                       /\ X.rows[k].index = y.rows[k].index
                       /\ X.rows[k] = X_full.rows[X.rows[k].index + 1]
                       /\ y.rows[k] = y_full.rows[y.rows[k].index + 1]
        IN  /\ split2 = split1
            /\ labels(split1.X_train) \cap labels(split1.X_test) = {}
            /\ labels(split1.X_train) \cup labels(split1.X_test) = labels(X_full)
            /\ aligned(split1.X_train, split1.y_train)
            /\ aligned(split1.X_test, split1.y_test)
            /\ 5 * Len(split1.X_test.rows) = Len(X_full.rows)

====
